---- MODULE Spec2Model ----
(***************************************************************************)
(* Model of the smart-home device controllers and emulators:               *)
(*   - SocketEmulator  (emulators/socket_emulator.rs): TCP server, one     *)
(*     handler task per accepted connection, one shared SocketState        *)
(*     behind a Mutex;                                                     *)
(*   - SocketController (controllers/socket_controller.rs): TCP client     *)
(*     with one lazily opened connection and a local SmartSocket model;    *)
(*   - ThermController (controllers/therm_controller.rs): UDP listener     *)
(*     thread, watch channel and callbacks.                                *)
(* Watts are integers (1500 stands for 1500.0); no arithmetic is done on   *)
(* them.                                                                   *)
(***************************************************************************)
EXTENDS Integers, Sequences, FiniteSets, TLC

(***************************************************************************)
(* Bounds of the model.                                                    *)
(***************************************************************************)
\* connections 1..MaxConns exist (raw clients, or the controller's sockets)
MaxConns == 2
\* commands the raw clients send in total
MaxCmds == 3

Conns == 1..MaxConns

\* SocketCommand (protocol/socket_protocol.rs)
SocketCommand == {"TurnOn", "TurnOff", "Power"}

\* EmulatorConfig values used by the tests: power_rating and device_id
EmuRatings == {1500, 2000}
DeviceIds == {"socket_emulator"}

NoHolder == 0
NoConn == 0
NoData == [result |-> "none"]

\* calls made on the controller
MaxCalls == 3

\* frames the raw clients send in total while the emulator is stopped and
\* restarted
MaxFrames == 2

\* SocketController::new power_rating used by the tests
CtlRatings == {1500}

\* the clock runs from 1 to MaxTime ticks (a tick stands for the 10 ms poll sleep)
MaxTime == 3
\* datagrams sent to the thermometer controller
MaxDatagrams == 2
\* concurrent callers of wait_for_new_data, and calls they make in total
MaxWaiters == 2
MaxWaits == 2

Waiters == 1..MaxWaiters

\* subscriptions made with on_temperature_change: ids 0..MaxSubs-1
MaxSubs == 2
SubIds == 0..(MaxSubs - 1)

\* ThermController::new arguments: initial_temp and max_age (in ticks)
InitialTemps == {20}
MaxAges == {1}

\* what a UDP datagram may hold: a ThermData sample (one of them below
\* absolute zero, -273.15), or bytes that are not a ThermData JSON
Datagrams ==
    {[kind |-> "sample", temperature |-> t] : t \in {21, -300}}
      \cup {[kind |-> "malformed", temperature |-> 0]}

NoValue == [kind |-> "None", t |-> 0]
NoFreshData == [kind |-> "Err", t |-> 0]
NeverReturned == [kind |-> "none", t |-> 0, start |-> 0, pub |-> 0]
NeverAsked == [kind |-> "none", t |-> 0, age |-> 0, stored |-> 0]
\* the age of a sample that was never received
NoAge == -1
NoCmd == [cmd |-> "-", seq |-> 0, floor |-> 0]

VARIABLES
    \* ---- SocketEmulator
    config,       \* EmulatorConfig: [power_rating, device_id]
    running,      \* SocketEmulator.running
    state,        \* the shared SocketState: [active, current_power, device_id]
    state_lock,   \* the holder of the Mutex around state (a connection), or NoHolder
    hpc,          \* per connection: where its handle_client task stands
    hcmd,         \* per connection: the command its handler is processing
    \* ---- the TCP streams
    link,         \* per connection: "none", "up", "cclosed" (the client closed or dropped it)
    c2s,          \* per connection: frames written by the client, not yet read by the handler
    s2c,          \* per connection: frames written by the handler, not yet read by the client
    \* ---- raw TCP clients of the emulator (tests::multiple_clients)
    csent,        \* per connection: number of commands the client has written
    cgot,         \* per connection: the responses the client has read, in order
    \* ---- SocketController
    socket,       \* the local SmartSocket: [is_active, power_rating, current_power]
    connection,   \* Option<TcpStream>: NoConn, or the connection it holds
    cpc,          \* "idle", or "await": inside send_command_and_receive
    cop,          \* the call in progress, or the last one (with what preceded it)
    cres,         \* what the last call returned
    calls,        \* number of calls made on the controller
    prevEvt,      \* what happened since the last call ended (history)
    \* ---- ThermController
    therm,          \* the SmartTherm's temperature
    max_age,        \* the configured max_age, in clock ticks
    last_update,    \* timestamp of the last sample, 0 = never
    th_running,     \* ThermController.running
    thread,         \* the listener thread: "none", "spawned", "loop", "exited",
                    \* "bind_failed", "panicked", "deadlocked"
    th_caller,      \* "idle", or "joining": inside stop(), waiting in handle.join()
    temp_slot,      \* the value in the watch channel
    temp_version,   \* the watch channel's version: the number of values sent
    temp_receiver,  \* the version the controller's own Receiver has seen
    udp,            \* datagrams in the bound socket's buffer
    udpSent,        \* datagrams sent to the controller so far
    now,            \* now_ms(), in clock ticks
    wpc,            \* per waiter: "idle", or "waiting" inside wait_for_new_data()
    wseen,          \* per waiter: the version its cloned Receiver has seen
    wret,           \* per waiter: what its last wait_for_new_data() returned
    waits,          \* number of wait_for_new_data() calls made
    \* ---- ThermController: subscriptions and temperature()
    callbacks,        \* the keys of the callbacks HashMap
    cb_mutex,         \* the Mutex around it: "free", "held" (for ever), "poisoned"
    next_callback_id, \* the id the next subscription gets
    handles,          \* per id: "none", "live" (a SubscriptionHandle exists), "released"
    reentrant,        \* per id: whether the callback releases a subscription when invoked
    rounds,           \* number of notification rounds begun (history)
    last_round,       \* the ids whose callbacks the latest round invoked (history)
    tres,             \* what the last temperature() call returned, the age of the
                      \* sample and the stored temperature it saw
    orphans,          \* listener threads running without a JoinHandle
    dropped,          \* malformed datagrams the listener has dropped (history)
    \* ---- SocketEmulator: the accept loop and stop()
    server,       \* the accept loop task: "none", "accepting", "finished"
    shutdown_rx,  \* whether the shutdown signal was sent to the accept loop
    stop_pc,      \* "idle", or "awaiting": inside stop(), awaiting the server handle
    bound_addr,   \* whether bound_addr is Some
    late,         \* the commands sent after a stop() returned (history)
    \* ---- SocketEmulator: what start() returned to its caller
    start_res,    \* the result of the last start(): "none", "Ok", "AlreadyExists", "BindError"
    starts,       \* number of start() calls made
    \* ---- handle_client: frame alignment of each stream (history)
    desync,       \* per connection: "aligned", "lost" (a header was refused and its
                  \* payload left in the stream), "reused" (the handler read on)
    \* ---- protocol/socket_protocol.rs and therm_protocol.rs: one byte stream
    wire,         \* the bytes written and not yet read, as header and payload segments
    peer_closed,  \* the writer has closed its end
    tx_log,       \* the values written, in order (history)
    rx_log,       \* what each receive call returned, in order (history)
    datagram,     \* the last ThermData sent as a JSON datagram and what was decoded
    \* ---- ThermEmulator
    te_running,   \* ThermEmulator.running
    te_thread,    \* the emulation thread: "none", "spawned", "loop" (at the while
                  \* condition), "body", "sleeping", "exited", "bind_failed"
    te_caller,    \* "idle", "joining" (inside stop()), "panicked" (start() panicked),
                  \* "dropping" (inside drop()), "gone" (dropped)
    initial_temp, \* ThermEmulator.initial_temp
    current_temp, \* the loop's current_temp
    scenario,     \* the EmulationScenario
    te_sent,      \* number of datagrams the loop has sent
    te_prev,      \* the temperature before the last update_temperature (history)
    te_orphans,   \* emulation threads running without a JoinHandle
    te_late,      \* datagrams sent after a stop() returned (history)
    \* ---- ThermController: the listener and temperature() step by step
    lpc,          \* where the listener stands in a sample: "idle", "stamped" (timestamp
                  \* stored), "written" (temperature stored), "published"
    rpc,          \* temperature(): "idle", or "loaded" (timestamp loaded and found fresh)
    rres,         \* what the last temperature() returned, and the sample that was the
                  \* latest when it read the temperature
    latest,       \* the temperature of the last sample whose timestamp was stored (history)
    arrivals,     \* the temperatures of the samples in the order of arrival (history)
    notes,        \* per notification round: what was published and what the
                  \* callbacks could see (history)
    polls,        \* poll iterations that found no datagram (history)
    \* ---- history (not program state)
    log,          \* the commands in the order process_command applied them
    floorAck      \* the highest log index whose response some client has read

emuVars == <<config, running, state, state_lock, hpc, hcmd>>
netVars == <<link, c2s, s2c>>
cliVars == <<csent, cgot>>
ctlVars == <<socket, connection, cpc, cop, cres, calls, prevEvt>>
thermVars == <<therm, max_age, last_update, th_running, thread, th_caller,
               temp_slot, temp_version, temp_receiver, udp, udpSent, now,
               wpc, wseen, wret, waits>>
subVars == <<callbacks, cb_mutex, next_callback_id, handles, reentrant, rounds,
             last_round, tres, orphans, dropped>>
lifeVars == <<server, shutdown_rx, stop_pc, bound_addr, late>>
histVars == <<log, floorAck>>
apiVars == <<start_res, starts>>
frameVars == <<desync>>
wireVars == <<wire, peer_closed, tx_log, rx_log, datagram>>
temuVars == <<te_running, te_thread, te_caller, initial_temp, current_temp, scenario, te_sent,
              te_prev, te_orphans, te_late>>
raceVars == <<lpc, rpc, rres, latest, arrivals, notes, polls>>
\* what neither the controllers nor the socket emulator's connections touch
extVars == <<apiVars, frameVars, wireVars, temuVars, raceVars>>
vars == <<emuVars, netVars, cliVars, ctlVars, thermVars, subVars, lifeVars, histVars,
          extVars>>
\* everything but the ThermController
socketVars == <<emuVars, netVars, cliVars, ctlVars, lifeVars, histVars, extVars>>
\* the socket emulator, its connections and its clients
tcpVars == <<emuVars, netVars, cliVars, ctlVars, lifeVars, histVars>>

(***************************************************************************)
(* SocketState                                                             *)
(***************************************************************************)
\* SocketState::new().with_device_id(config.device_id)
SocketState_new(device_id) ==
    [active |-> FALSE, current_power |-> 0, device_id |-> device_id]

\* (mutant) turn_on that forgets the rating
turn_on_no_power(s, power_rating) ==
    [s EXCEPT !.active = TRUE]

turn_on(s, power_rating) ==
    [s EXCEPT !.active = TRUE, !.current_power = power_rating]

\* (mutant) turn_off that leaves the power reading
turn_off_keeps_power(s) ==
    [s EXCEPT !.active = FALSE]

turn_off(s) ==
    [s EXCEPT !.active = FALSE, !.current_power = 0]

to_data(s) ==
    [result |-> "ok", active |-> s.active, power |-> s.current_power,
     device_id |-> s.device_id]

\* the match of process_command: the state the command leaves behind
apply_command(command, s, cfg) ==
    CASE command = "TurnOn"  -> turn_on(s, cfg.power_rating)
      [] command = "TurnOff" -> turn_off(s)
      [] command = "Power"   -> s

\* (mutant) no mutual exclusion
lock_never_waits(holder) == TRUE

\* state.lock(): the caller goes on only when nobody holds the Mutex
lock_available(holder) == holder = NoHolder

(***************************************************************************)
(* History helpers                                                         *)
(***************************************************************************)
\* the log index of the n-th command of connection c (0 when not applied yet)
LogIdx(c, n) ==
    LET S == {i \in 1..Len(log) : log[i].conn = c /\ log[i].k = n}
    IN IF S = {} THEN 0 ELSE CHOOSE i \in S : TRUE

Max(a, b) == IF a >= b THEN a ELSE b

RECURSIVE SumTo(_, _)
SumTo(f, n) == IF n = 0 THEN 0 ELSE f[n] + SumTo(f, n - 1)

TotalSent == SumTo(csent, MaxConns)

(***************************************************************************)
(* SocketEmulator: new / start                                             *)
(***************************************************************************)
EmuInit ==
    /\ config \in [power_rating : EmuRatings, device_id : DeviceIds]
    /\ running = FALSE
    /\ state = SocketState_new(config.device_id)
    /\ state_lock = NoHolder
    /\ hpc = [c \in Conns |-> "none"]
    /\ hcmd = [c \in Conns |-> NoCmd]

NetInit ==
    /\ link = [c \in Conns |-> "none"]
    /\ c2s = [c \in Conns |-> <<>>]
    /\ s2c = [c \in Conns |-> <<>>]

CliInit ==
    /\ csent = [c \in Conns |-> 0]
    /\ cgot = [c \in Conns |-> <<>>]

HistInit ==
    /\ log = <<>>
    /\ floorAck = 0

LifeInit ==
    /\ server = "none"
    /\ shutdown_rx = FALSE
    /\ stop_pc = "idle"
    /\ bound_addr = FALSE
    /\ late = {}

ApiInit ==
    /\ start_res = "none"
    /\ starts = 0

FrameInit == desync = [c \in Conns |-> "aligned"]

\* an unused stream
NoDatagram == [sent |-> {}, got |-> {}]

WireInit ==
    /\ wire = <<>>
    /\ peer_closed = FALSE
    /\ tx_log = <<>>
    /\ rx_log = <<>>
    /\ datagram = NoDatagram

\* ThermEmulator::new(20.0), never started
TemuIdle ==
    /\ te_running = FALSE
    /\ te_thread = "none"
    /\ te_caller = "idle"
    /\ initial_temp = [big |-> FALSE, h |-> 40]
    /\ current_temp = initial_temp
    /\ scenario = "Normal"
    /\ te_sent = 0
    /\ te_prev = {}
    /\ te_orphans = 0
    /\ te_late = 0

NoReading == [kind |-> "none", t |-> 0, latest |-> {}]

RaceInit ==
    /\ lpc = "idle"
    /\ rpc = "idle"
    /\ rres = NoReading
    /\ latest = {}
    /\ arrivals = <<>>
    /\ notes = <<>>
    /\ polls = 0

ExtIdle == ApiInit /\ FrameInit /\ WireInit /\ TemuIdle /\ RaceInit

\* a stop() has returned and no start() followed
Stopped == ~running /\ stop_pc = "idle" /\ server = "none"

\* start(): refused when already running; otherwise bind and spawn the accept loop
EmuStart ==
    /\ stop_pc = "idle"
    /\ ~running
    /\ running' = TRUE
    /\ bound_addr' = TRUE
    /\ shutdown_rx' = FALSE
    /\ server' = "accepting"
    /\ UNCHANGED <<config, state, state_lock, hpc, hcmd>>
    /\ UNCHANGED <<netVars, cliVars, histVars>>
    /\ UNCHANGED ctlVars
    /\ UNCHANGED <<thermVars, subVars, extVars>>
    /\ UNCHANGED <<stop_pc, late>>

(***************************************************************************)
(* A raw TCP client (TcpStream::connect, send_command, receive_response)   *)
(***************************************************************************)
\* connect: the accept loop accepts and spawns handle_client for the stream
ClientConnect(c) ==
    /\ server = "accepting"
    /\ link[c] = "none"
    /\ link' = [link EXCEPT ![c] = "up"]
    /\ hpc' = [hpc EXCEPT ![c] = "recv"]
    /\ UNCHANGED <<config, running, state, state_lock, hcmd>>
    /\ UNCHANGED <<c2s, s2c, cliVars, histVars>>
    /\ UNCHANGED ctlVars
    /\ UNCHANGED <<thermVars, subVars, extVars>>
    /\ UNCHANGED lifeVars

\* send_command_and_receive: the next command is written after the previous
\* response was read (a frame that is no SocketCommand when cmd is "Invalid")
ClientSend(c, cmd) ==
    /\ link[c] = "up"
    /\ TotalSent < MaxCmds
    /\ csent[c] = Len(cgot[c])
    /\ c2s' = [c2s EXCEPT ![c] = Append(@, [cmd |-> cmd, seq |-> csent[c] + 1, floor |-> floorAck])]
    /\ csent' = [csent EXCEPT ![c] = @ + 1]
    /\ late' = IF Stopped THEN late \cup {<<c, csent[c] + 1>>} ELSE late
    /\ UNCHANGED <<emuVars, link, s2c, cgot, histVars>>
    /\ UNCHANGED ctlVars
    /\ UNCHANGED <<thermVars, subVars, extVars>>
    /\ UNCHANGED <<server, shutdown_rx, stop_pc, bound_addr>>

ClientRecv(c) ==
    /\ link[c] = "up"
    /\ s2c[c] # <<>>
    /\ cgot' = [cgot EXCEPT ![c] = Append(@, Head(s2c[c]))]
    /\ s2c' = [s2c EXCEPT ![c] = Tail(@)]
    /\ floorAck' = Max(floorAck, LogIdx(c, Len(cgot[c]) + 1))
    /\ UNCHANGED <<emuVars, link, c2s, csent, log>>
    /\ UNCHANGED ctlVars
    /\ UNCHANGED <<thermVars, subVars, extVars>>
    /\ UNCHANGED lifeVars

\* the client closes its end: the handler reads EOF once c2s is drained
ClientClose(c) ==
    /\ link[c] = "up"
    /\ link' = [link EXCEPT ![c] = "cclosed"]
    /\ s2c' = [s2c EXCEPT ![c] = <<>>]
    /\ UNCHANGED <<emuVars, c2s, cliVars, histVars>>
    /\ UNCHANGED ctlVars
    /\ UNCHANGED <<thermVars, subVars, extVars>>
    /\ UNCHANGED lifeVars

(***************************************************************************)
(* handle_client: one task per connection                                  *)
(***************************************************************************)
\* receive_message returns "Message too large" after reading the 4 header
\* bytes only: the payload that header announced is still in the stream. The
\* stream of a handler that reads on after that is no longer frame-aligned.
read_on(alignment, cmd) ==
    IF alignment # "aligned" THEN "reused"
    ELSE IF cmd = "Oversize" THEN "lost"
    ELSE "aligned"

\* receive_command returned Ok(cmd); process_command: state.lock().
\* The frame stays in the stream until the lock is available: reading it
\* earlier changes nothing any other task can see.
HandlerReceive(c) ==
    /\ hpc[c] = "recv"
    /\ c2s[c] # <<>>
    /\ Head(c2s[c]).cmd \in SocketCommand
    /\ lock_available(state_lock)
    /\ state_lock' = c
    /\ hcmd' = [hcmd EXCEPT ![c] = Head(c2s[c])]
    /\ c2s' = [c2s EXCEPT ![c] = Tail(@)]
    /\ hpc' = [hpc EXCEPT ![c] = "locked"]
    /\ desync' = [desync EXCEPT ![c] = read_on(@, Head(c2s[c]).cmd)]
    /\ UNCHANGED <<config, running, state>>
    /\ UNCHANGED <<link, s2c, cliVars, histVars>>
    /\ UNCHANGED ctlVars
    /\ UNCHANGED <<thermVars, subVars, raceVars, apiVars, wireVars, temuVars>>
    /\ UNCHANGED lifeVars

\* receive_command returned Err(UnexpectedEof): break
HandlerEof(c) ==
    /\ hpc[c] = "recv"
    /\ c2s[c] = <<>>
    /\ link[c] = "cclosed"
    /\ hpc' = [hpc EXCEPT ![c] = "done"]
    /\ UNCHANGED <<config, running, state, state_lock, hcmd>>
    /\ UNCHANGED <<netVars, cliVars, histVars>>
    /\ UNCHANGED ctlVars
    /\ UNCHANGED <<thermVars, subVars, extVars>>
    /\ UNCHANGED lifeVars

\* process_command: the match arm's mutation (turn_on / turn_off / none)
HandlerApply(c) ==
    /\ hpc[c] = "locked"
    /\ state' = apply_command(hcmd[c].cmd, state, config)
    /\ log' = Append(log, [conn |-> c, k |-> hcmd[c].seq, cmd |-> hcmd[c].cmd,
                           floor |-> hcmd[c].floor, pre |-> state, post |-> state'])
    /\ hpc' = [hpc EXCEPT ![c] = "snapshot"]
    /\ UNCHANGED <<config, running, state_lock, hcmd>>
    /\ UNCHANGED <<netVars, cliVars, floorAck>>
    /\ UNCHANGED ctlVars
    /\ UNCHANGED <<thermVars, subVars, extVars>>
    /\ UNCHANGED lifeVars

\* process_command: SocketResponse::Ok(state_guard.to_data()), the guard is
\* dropped; send_response succeeded: next iteration of the loop
HandlerRespond(c) ==
    /\ hpc[c] = "snapshot"
    /\ link[c] = "up"
    /\ state_lock' = NoHolder
    /\ s2c' = [s2c EXCEPT ![c] = Append(@, to_data(state))]
    /\ hpc' = [hpc EXCEPT ![c] = "recv"]
    /\ hcmd' = [hcmd EXCEPT ![c] = NoCmd]
    /\ UNCHANGED <<config, running, state>>
    /\ UNCHANGED <<link, c2s, cliVars, histVars>>
    /\ UNCHANGED ctlVars
    /\ UNCHANGED <<thermVars, subVars, extVars>>
    /\ UNCHANGED lifeVars

\* (mutant) the handler ends without releasing the Mutex
HandlerRespondFailKeepsLock(c) ==
    /\ hpc[c] = "snapshot"
    /\ link[c] \in {"cclosed", "broken"}
    /\ hpc' = [hpc EXCEPT ![c] = "done"]
    /\ hcmd' = [hcmd EXCEPT ![c] = NoCmd]
    /\ UNCHANGED <<config, running, state, state_lock>>
    /\ UNCHANGED <<netVars, cliVars, histVars>>
    /\ UNCHANGED ctlVars
    /\ UNCHANGED <<thermVars, subVars, extVars>>
    /\ UNCHANGED lifeVars

\* the same, but send_response failed (the client is gone): break
HandlerRespondFail(c) ==
    /\ hpc[c] = "snapshot"
    /\ link[c] \in {"cclosed", "broken"}
    /\ state_lock' = NoHolder
    /\ hpc' = [hpc EXCEPT ![c] = "done"]
    /\ hcmd' = [hcmd EXCEPT ![c] = NoCmd]
    /\ UNCHANGED <<config, running, state>>
    /\ UNCHANGED <<netVars, cliVars, histVars>>
    /\ UNCHANGED ctlVars
    /\ UNCHANGED <<thermVars, subVars, extVars>>
    /\ UNCHANGED lifeVars

\* (mutant) a handler that answers a refused frame and ends
HandlerRejectCloses(c) ==
    /\ hpc[c] = "recv"
    /\ c2s[c] # <<>>
    /\ Head(c2s[c]).cmd \notin SocketCommand
    /\ c2s' = [c2s EXCEPT ![c] = Tail(@)]
    /\ s2c' = IF link[c] = "up"
              THEN [s2c EXCEPT ![c] = Append(@, [result |-> "error",
                                                 message |-> "Invalid command"])]
              ELSE s2c
    /\ hpc' = [hpc EXCEPT ![c] = "done"]
    /\ desync' = [desync EXCEPT ![c] = read_on(@, Head(c2s[c]).cmd)]
    /\ UNCHANGED <<config, running, state, state_lock, hcmd>>
    /\ UNCHANGED <<link, cliVars, histVars>>
    /\ UNCHANGED ctlVars
    /\ UNCHANGED <<thermVars, subVars, raceVars, apiVars, wireVars, temuVars>>
    /\ UNCHANGED lifeVars

\* receive_command returned an error other than UnexpectedEof (the frame is
\* no SocketCommand): an Error response is sent if it still can be, continue
HandlerReject(c) ==
    /\ hpc[c] = "recv"
    /\ c2s[c] # <<>>
    /\ Head(c2s[c]).cmd \notin SocketCommand
    /\ c2s' = [c2s EXCEPT ![c] = Tail(@)]
    /\ s2c' = IF link[c] = "up"
              THEN [s2c EXCEPT ![c] = Append(@, [result |-> "error",
                                                 message |-> "Invalid command"])]
              ELSE s2c
    /\ desync' = [desync EXCEPT ![c] = read_on(@, Head(c2s[c]).cmd)]
    /\ UNCHANGED <<emuVars, link, cliVars, histVars>>
    /\ UNCHANGED ctlVars
    /\ UNCHANGED <<thermVars, subVars, raceVars, apiVars, wireVars, temuVars>>
    /\ UNCHANGED lifeVars

(***************************************************************************)
(* SocketEmulator: stop() and the accept loop                              *)
(***************************************************************************)
\* (mutant) stop() that does not await the server handle
EmuStopNoAwait ==
    /\ stop_pc = "idle"
    /\ running \/ server # "none" \/ bound_addr
    /\ running' = FALSE
    /\ shutdown_rx' = (server # "none")
    /\ stop_pc' = "idle"
    /\ bound_addr' = FALSE
    /\ UNCHANGED <<server, late>>
    /\ UNCHANGED <<config, state, state_lock, hpc, hcmd>>
    /\ UNCHANGED <<netVars, cliVars, histVars>>
    /\ UNCHANGED ctlVars
    /\ UNCHANGED <<thermVars, subVars, extVars>>

\* stop(): running = false, the shutdown signal is sent; without a server
\* handle it returns at once, otherwise it awaits the handle
EmuStop ==
    /\ stop_pc = "idle"
    /\ running \/ server # "none" \/ bound_addr
    /\ running' = FALSE
    /\ shutdown_rx' = (server # "none")
    /\ stop_pc' = IF server = "none" THEN "idle" ELSE "awaiting"
    /\ bound_addr' = IF server = "none" THEN FALSE ELSE bound_addr
    /\ UNCHANGED <<server, late>>
    /\ UNCHANGED <<config, state, state_lock, hpc, hcmd>>
    /\ UNCHANGED <<netVars, cliVars, histVars>>
    /\ UNCHANGED ctlVars
    /\ UNCHANGED <<thermVars, subVars, extVars>>

\* the accept loop: select! takes the shutdown branch, break; the task ends
\* and the listener is dropped
AcceptLoopShutdown ==
    /\ server = "accepting"
    /\ shutdown_rx
    /\ server' = "finished"
    /\ UNCHANGED <<shutdown_rx, stop_pc, bound_addr, late>>
    /\ UNCHANGED <<emuVars, netVars, cliVars, histVars>>
    /\ UNCHANGED ctlVars
    /\ UNCHANGED <<thermVars, subVars, extVars>>

\* (mutant) stop() that leaves bound_addr as it is
EmuStopReturnKeepsAddr ==
    /\ stop_pc = "awaiting"
    /\ server = "finished"
    /\ server' = "none"
    /\ stop_pc' = "idle"
    /\ UNCHANGED <<shutdown_rx, late, bound_addr>>
    /\ UNCHANGED <<emuVars, netVars, cliVars, histVars>>
    /\ UNCHANGED ctlVars
    /\ UNCHANGED <<thermVars, subVars, extVars>>

\* stop(): handle.await returned; bound_addr = None
EmuStopReturn ==
    /\ stop_pc = "awaiting"
    /\ server = "finished"
    /\ server' = "none"
    /\ bound_addr' = FALSE
    /\ stop_pc' = "idle"
    /\ UNCHANGED <<shutdown_rx, late>>
    /\ UNCHANGED <<emuVars, netVars, cliVars, histVars>>
    /\ UNCHANGED ctlVars
    /\ UNCHANGED <<thermVars, subVars, extVars>>

(***************************************************************************)
(* SmartSocket: the controller's local model (devices/smart_socket.rs)     *)
(***************************************************************************)
SmartSocket_new(power_rating) ==
    [is_active |-> FALSE, power_rating |-> power_rating, current_power |-> 0]

socket_turn_on(s) ==
    [s EXCEPT !.is_active = TRUE, !.current_power = s.power_rating]

socket_turn_off(s) ==
    [s EXCEPT !.is_active = FALSE, !.current_power = 0]

(***************************************************************************)
(* SocketController                                                        *)
(***************************************************************************)
\* (mutant) the local model is synchronized whatever the response is
sync_local_any_response(s, response) ==
    IF response.result = "ok" /\ response.active
    THEN socket_turn_on(s) ELSE socket_turn_off(s)

\* send_command_and_sync: the match on the response
sync_local(s, response) ==
    IF response.result = "ok"
    THEN IF response.active THEN socket_turn_on(s) ELSE socket_turn_off(s)
    ELSE s

result_of(response) == IF response.result = "ok" THEN "Ok" ELSE "DeviceError"

\* is_connection_alive: stream.peer_addr().is_ok(). On a healthy stream it is
\* true. On a stream whose transport was closed underneath, the operating
\* system answers either way (getpeername still succeeds after the peer's
\* FIN, fails after a reset was seen): both outcomes are possible.
is_connection_alive(l) == IF l = "up" THEN {TRUE} ELSE BOOLEAN

\* (mutant) the previous stream is kept open
drop_stream_leaks(l, c) == l

\* dropping the TcpStream (connection = None) closes the client's end
drop_stream(l, c) == IF c = NoConn THEN l ELSE [l EXCEPT ![c] = "cclosed"]

emptied(q, c) == IF c = NoConn THEN q ELSE [q EXCEPT ![c] = <<>>]

\* ensure_connected: no connection, or the probe says it is dead
need_reconnect ==
    IF connection = NoConn THEN TRUE
    ELSE FALSE \in is_connection_alive(link[connection])

\* connections that already exist or existed
Used == {c \in Conns : link[c] # "none"}

\* the frame send_command writes
CommandFrame(cmd) == [cmd |-> cmd, seq |-> calls + 1, floor |-> 0]

BeginCall(cmd) ==
    [cmd |-> cmd, before |-> socket, prev |-> prevEvt, reach |-> running,
     clean |-> TRUE, used |-> Used]

Returned(res, stage, data, value) ==
    [res |-> res, stage |-> stage, data |-> data, value |-> value]

\* SocketController::new(address, power_rating, timeout)
CtlInit ==
    /\ socket \in {SmartSocket_new(r) : r \in CtlRatings}
    /\ connection = NoConn
    /\ cpc = "idle"
    /\ cop = [cmd |-> "new", before |-> socket, prev |-> "none", reach |-> FALSE,
              clean |-> TRUE, used |-> {}]
    /\ cres = Returned("none", "-", NoData, 0)
    /\ calls = 0
    /\ prevEvt = "none"

\* no controller takes part
CtlIdle ==
    /\ socket = SmartSocket_new(1500)
    /\ connection = NoConn
    /\ cpc = "idle"
    /\ cop = [cmd |-> "new", before |-> socket, prev |-> "none", reach |-> FALSE,
              clean |-> TRUE, used |-> {}]
    /\ cres = Returned("none", "-", NoData, 0)
    /\ calls = 0
    /\ prevEvt = "none"

\* turn_on / turn_off / power -> send_command_and_sync -> ensure_connected finds
\* the connection alive and returns it; send_command writes the frame
CtlReuse(cmd) ==
    /\ cpc = "idle"
    /\ calls < MaxCalls
    /\ connection # NoConn
    /\ TRUE \in is_connection_alive(link[connection])
    /\ c2s' = IF link[connection] = "up"
              THEN [c2s EXCEPT ![connection] = Append(@, CommandFrame(cmd))]
              ELSE c2s
    /\ cpc' = "await"
    /\ cop' = BeginCall(cmd)
    /\ calls' = calls + 1
    /\ prevEvt' = "none"
    /\ UNCHANGED <<socket, connection, cres, link, s2c>>
    /\ UNCHANGED <<emuVars, cliVars, histVars>>
    /\ UNCHANGED <<thermVars, subVars, extVars>>
    /\ UNCHANGED lifeVars

\* ... ensure_connected has no connection, or finds it dead: it drops it and
\* connects; the accept loop spawns handle_client; send_command writes the frame
CtlConnect(cmd) ==
    /\ cpc = "idle"
    /\ calls < MaxCalls
    /\ need_reconnect
    /\ running
    /\ \E c \in Conns :
         /\ link[c] = "none"
         /\ \A d \in Conns : d < c => link[d] # "none"
         /\ link' = [drop_stream(link, connection) EXCEPT ![c] = "up"]
         /\ hpc' = [hpc EXCEPT ![c] = "recv"]
         /\ connection' = c
         /\ c2s' = [c2s EXCEPT ![c] = <<CommandFrame(cmd)>>]
    /\ s2c' = emptied(s2c, connection)
    /\ cpc' = "await"
    /\ cop' = BeginCall(cmd)
    /\ calls' = calls + 1
    /\ prevEvt' = "none"
    /\ UNCHANGED <<socket, cres>>
    /\ UNCHANGED <<config, running, state, state_lock, hcmd, cliVars, histVars>>
    /\ UNCHANGED <<thermVars, subVars, extVars>>
    /\ UNCHANGED lifeVars

\* ... the connect is refused: Err(ConnectionError)
CtlConnectRefused(cmd) ==
    /\ cpc = "idle"
    /\ calls < MaxCalls
    /\ need_reconnect
    /\ ~running
    /\ link' = drop_stream(link, connection)
    /\ s2c' = emptied(s2c, connection)
    /\ connection' = NoConn
    /\ cop' = [BeginCall(cmd) EXCEPT !.clean = FALSE]
    /\ cres' = Returned("ConnectionError", "connect", NoData, 0)
    /\ calls' = calls + 1
    /\ prevEvt' = "none"
    /\ UNCHANGED <<socket, cpc, c2s>>
    /\ UNCHANGED <<emuVars, cliVars, histVars>>
    /\ UNCHANGED <<thermVars, subVars, extVars>>
    /\ UNCHANGED lifeVars

\* ... the connect does not finish within the timeout: Err(Timeout)
CtlConnectTimeout(cmd) ==
    /\ cpc = "idle"
    /\ calls < MaxCalls
    /\ need_reconnect
    /\ link' = drop_stream(link, connection)
    /\ s2c' = emptied(s2c, connection)
    /\ connection' = NoConn
    /\ cop' = [BeginCall(cmd) EXCEPT !.clean = FALSE]
    /\ cres' = Returned("Timeout", "connect", NoData, 0)
    /\ calls' = calls + 1
    /\ prevEvt' = "none"
    /\ UNCHANGED <<socket, cpc, c2s>>
    /\ UNCHANGED <<emuVars, cliVars, histVars>>
    /\ UNCHANGED <<thermVars, subVars, extVars>>
    /\ UNCHANGED lifeVars

\* receive_response read a frame: Ok(data) synchronizes the local model and is
\* returned (power() returns the local model's current_power); Error is
\* returned as DeviceError
CtlRecv ==
    /\ cpc = "await"
    /\ link[connection] = "up"
    /\ s2c[connection] # <<>>
    /\ LET response == Head(s2c[connection])
       IN /\ socket' = sync_local(socket, response)
          /\ cres' = Returned(result_of(response), "roundtrip",
                              IF response.result = "ok" THEN response ELSE NoData,
                              IF response.result = "ok" /\ cop.cmd = "Power"
                              THEN socket'.current_power ELSE 0)
          /\ prevEvt' = IF response.result = "ok" /\ cop.cmd = "TurnOn"
                        THEN "turn_on_ok" ELSE "none"
    /\ s2c' = [s2c EXCEPT ![connection] = Tail(@)]
    /\ cpc' = "idle"
    /\ UNCHANGED <<connection, cop, calls, link, c2s>>
    /\ UNCHANGED <<emuVars, cliVars, histVars>>
    /\ UNCHANGED <<thermVars, subVars, extVars>>
    /\ UNCHANGED lifeVars

\* the round trip does not finish within the timeout: Err(Timeout)
CtlTimeout ==
    /\ cpc = "await"
    /\ cres' = Returned("Timeout", "roundtrip", NoData, 0)
    /\ cop' = IF link[connection] = "up" THEN [cop EXCEPT !.clean = FALSE] ELSE cop
    /\ cpc' = "idle"
    /\ prevEvt' = "none"
    /\ UNCHANGED <<socket, connection, calls>>
    /\ UNCHANGED <<emuVars, netVars, cliVars, histVars>>
    /\ UNCHANGED <<thermVars, subVars, extVars>>
    /\ UNCHANGED lifeVars

\* send_command or receive_response fails on the dead stream: Err(CommandError)
CtlIoError ==
    /\ cpc = "await"
    /\ link[connection] = "broken"
    /\ cres' = Returned("CommandError", "roundtrip", NoData, 0)
    /\ cpc' = "idle"
    /\ prevEvt' = "none"
    /\ UNCHANGED <<socket, connection, cop, calls>>
    /\ UNCHANGED <<emuVars, netVars, cliVars, histVars>>
    /\ UNCHANGED <<thermVars, subVars, extVars>>
    /\ UNCHANGED lifeVars

\* (mutant) disconnect that keeps the connection
CtlDisconnectKeeps ==
    /\ cpc = "idle"
    /\ calls < MaxCalls
    /\ cop' = BeginCall("disconnect")
    /\ cres' = Returned("Unit", "-", NoData, 0)
    /\ calls' = calls + 1
    /\ prevEvt' = "disconnect"
    /\ UNCHANGED <<socket, connection, cpc, netVars>>
    /\ UNCHANGED <<emuVars, cliVars, histVars>>
    /\ UNCHANGED <<thermVars, subVars, extVars>>
    /\ UNCHANGED lifeVars

\* disconnect(): connection = None
CtlDisconnect ==
    /\ cpc = "idle"
    /\ calls < MaxCalls
    /\ link' = drop_stream(link, connection)
    /\ s2c' = emptied(s2c, connection)
    /\ connection' = NoConn
    /\ cop' = BeginCall("disconnect")
    /\ cres' = Returned("Unit", "-", NoData, 0)
    /\ calls' = calls + 1
    /\ prevEvt' = "disconnect"
    /\ UNCHANGED <<socket, cpc, c2s>>
    /\ UNCHANGED <<emuVars, cliVars, histVars>>
    /\ UNCHANGED <<thermVars, subVars, extVars>>
    /\ UNCHANGED lifeVars

(***************************************************************************)
(* The controller's environment                                            *)
(***************************************************************************)
\* the transport of the controller's connection is closed underneath it
EnvBreak(c) ==
    /\ c = connection
    /\ link[c] = "up"
    /\ link' = [link EXCEPT ![c] = "broken"]
    /\ c2s' = [c2s EXCEPT ![c] = <<>>]
    /\ s2c' = [s2c EXCEPT ![c] = <<>>]
    /\ prevEvt' = IF cpc = "idle" /\ prevEvt = "turn_on_ok"
                  THEN "turn_on_ok_broken" ELSE prevEvt
    /\ cop' = IF cpc = "await" THEN [cop EXCEPT !.clean = FALSE] ELSE cop
    /\ UNCHANGED <<socket, connection, cpc, cres, calls>>
    /\ UNCHANGED <<emuVars, cliVars, histVars>>
    /\ UNCHANGED <<thermVars, subVars, extVars>>
    /\ UNCHANGED lifeVars

\* the device cannot take the frame and answers Error (handle_client does for
\* a frame receive_command rejects)
DeviceReportsError(c) ==
    /\ hpc[c] = "recv"
    /\ link[c] = "up"
    /\ c2s[c] # <<>>
    /\ c2s' = [c2s EXCEPT ![c] = Tail(@)]
    /\ s2c' = [s2c EXCEPT ![c] = Append(@, [result |-> "error",
                                            message |-> "Invalid command"])]
    /\ cop' = IF cpc = "await" THEN [cop EXCEPT !.clean = FALSE] ELSE cop
    /\ UNCHANGED <<socket, connection, cpc, cres, calls, prevEvt, link>>
    /\ UNCHANGED <<emuVars, cliVars, histVars>>
    /\ UNCHANGED <<thermVars, subVars, extVars>>
    /\ UNCHANGED lifeVars

\* handle_client on a stream that was reset: receive_command fails, the Error
\* response cannot be sent, and the next receive_command reads the end of
\* the stream
HandlerReset(c) ==
    /\ hpc[c] = "recv"
    /\ link[c] = "broken"
    /\ hpc' = [hpc EXCEPT ![c] = "done"]
    /\ UNCHANGED <<config, running, state, state_lock, hcmd>>
    /\ UNCHANGED <<netVars, cliVars, ctlVars, histVars>>
    /\ UNCHANGED <<thermVars, subVars, extVars>>
    /\ UNCHANGED lifeVars

(***************************************************************************)
(* ThermController                                                         *)
(***************************************************************************)
\* Celsius::new panics below ABSOLUTE_ZERO_C = -273.15
celsius_ok(t) == t >= -273

OkValue(t) == [kind |-> "Ok", t |-> t]

\* ThermController::new(initial_temp, listen_addr, max_age)
ThermInit ==
    /\ therm \in InitialTemps
    /\ max_age \in MaxAges
    /\ last_update = 0
    /\ th_running = FALSE
    /\ thread = "none"
    /\ th_caller = "idle"
    /\ temp_slot = NoValue
    /\ temp_version = 0
    /\ temp_receiver = 0
    /\ udp = <<>>
    /\ udpSent = 0
    /\ now = 1
    /\ wpc = [w \in Waiters |-> "idle"]
    /\ wseen = [w \in Waiters |-> 0]
    /\ wret = [w \in Waiters |-> NeverReturned]
    /\ waits = 0

\* no thermometer controller takes part
ThermIdle ==
    /\ therm = 20
    /\ max_age = 1
    /\ last_update = 0
    /\ th_running = FALSE
    /\ thread = "none"
    /\ th_caller = "idle"
    /\ temp_slot = NoValue
    /\ temp_version = 0
    /\ temp_receiver = 0
    /\ udp = <<>>
    /\ udpSent = 0
    /\ now = 1
    /\ wpc = [w \in Waiters |-> "idle"]
    /\ wseen = [w \in Waiters |-> 0]
    /\ wret = [w \in Waiters |-> NeverReturned]
    /\ waits = 0

\* a listener thread whose JoinHandle is overwritten goes on without one
detached(t) == IF t \in {"spawned", "loop", "deadlocked"} THEN 1 ELSE 0

\* (mutant) start() without the running check
ThermStartAlways ==
    /\ th_caller = "idle"
    /\ th_running' = TRUE
    /\ thread' = "spawned"
    /\ orphans' = orphans + detached(thread)
    /\ UNCHANGED <<callbacks, cb_mutex, next_callback_id, handles, reentrant, rounds,
                   last_round, tres, dropped>>
    /\ UNCHANGED <<therm, max_age, last_update, th_caller, temp_slot, temp_version,
                   temp_receiver, udp, udpSent, now, wpc, wseen, wret, waits>>
    /\ UNCHANGED socketVars

\* start(): returns when already running; otherwise sets running and spawns
\* the listener thread
ThermStart ==
    /\ th_caller = "idle"
    /\ ~th_running
    /\ th_running' = TRUE
    /\ thread' = "spawned"
    /\ orphans' = orphans + detached(thread)
    /\ UNCHANGED <<callbacks, cb_mutex, next_callback_id, handles, reentrant, rounds,
                   last_round, tres, dropped>>
    /\ UNCHANGED <<therm, max_age, last_update, th_caller, temp_slot, temp_version,
                   temp_receiver, udp, udpSent, now, wpc, wseen, wret, waits>>
    /\ UNCHANGED socketVars

\* stop(): running = false; with a thread handle, wait in join()
ThermStop ==
    /\ th_caller = "idle"
    /\ th_running \/ thread # "none"
    /\ th_running' = FALSE
    /\ th_caller' = IF thread = "none" THEN "idle" ELSE "joining"
    /\ UNCHANGED <<therm, max_age, last_update, thread, temp_slot, temp_version,
                   temp_receiver, udp, udpSent, now, wpc, wseen, wret, waits>>
    /\ UNCHANGED subVars
    /\ UNCHANGED socketVars

\* stop(): handle.join() returns, the thread has ended
ThermJoin ==
    /\ th_caller = "joining"
    /\ thread \in {"exited", "bind_failed", "panicked"}
    /\ thread' = "none"
    /\ th_caller' = "idle"
    /\ UNCHANGED <<therm, max_age, last_update, th_running, temp_slot, temp_version,
                   temp_receiver, udp, udpSent, now, wpc, wseen, wret, waits>>
    /\ UNCHANGED subVars
    /\ UNCHANGED socketVars

\* the listener thread: UdpSocket::bind succeeded
ListenerBind ==
    /\ thread = "spawned"
    /\ thread' = "loop"
    /\ UNCHANGED <<therm, max_age, last_update, th_running, th_caller, temp_slot,
                   temp_version, temp_receiver, udp, udpSent, now, wpc, wseen, wret,
                   waits>>
    /\ UNCHANGED subVars
    /\ UNCHANGED socketVars

\* the listener thread: UdpSocket::bind failed, the thread returns
ListenerBindFail ==
    /\ thread = "spawned"
    /\ thread' = "bind_failed"
    /\ UNCHANGED <<therm, max_age, last_update, th_running, th_caller, temp_slot,
                   temp_version, temp_receiver, udp, udpSent, now, wpc, wseen, wret,
                   waits>>
    /\ UNCHANGED subVars
    /\ UNCHANGED socketVars

\* the listener thread: while running.load() is false, the loop ends
ListenerExit ==
    /\ thread = "loop"
    /\ ~th_running
    /\ thread' = "exited"
    /\ udp' = <<>>
    /\ UNCHANGED <<therm, max_age, last_update, th_running, th_caller, temp_slot,
                   temp_version, temp_receiver, udpSent, now, wpc, wseen, wret, waits>>
    /\ UNCHANGED subVars
    /\ UNCHANGED socketVars

\* temp_sender.send(Some(value))
publish(value) ==
    /\ temp_slot' = value
    /\ temp_version' = temp_version + 1

\* the rounds a notification can make of the registered callbacks cbs: all of
\* them, in the HashMap's order, when none releases a subscription; otherwise
\* the round stops inside the first such callback it reaches
round_of(cbs) ==
    IF \A id \in cbs : ~reentrant[id]
    THEN {cbs}
    ELSE {S \in SUBSET cbs : Cardinality({id \in S : reentrant[id]}) = 1}

\* callbacks.lock() and the loop over callbacks.iter(). A poisoned Mutex skips
\* the round. A callback that releases a subscription locks the Mutex its own
\* thread holds: lock() then never returns; it blocks for ever or panics
\* (which poisons the Mutex), as the platform decides.
notify ==
    IF cb_mutex = "poisoned"
    THEN UNCHANGED <<thread, cb_mutex, callbacks, rounds, last_round>>
    ELSE /\ rounds' = rounds + 1
         /\ last_round' \in round_of(callbacks)
         /\ UNCHANGED callbacks
         /\ IF \E id \in callbacks : reentrant[id]
            THEN \/ thread' = "deadlocked" /\ cb_mutex' = "held"
                 \/ thread' = "panicked" /\ cb_mutex' = "poisoned"
            ELSE UNCHANGED <<thread, cb_mutex>>

\* the listener thread: recv_from returned a ThermData sample: timestamp,
\* temperature, watch channel (then the callbacks)
ListenerIngest ==
    /\ thread = "loop"
    /\ th_running
    /\ udp # <<>>
    /\ Head(udp).kind = "sample"
    /\ celsius_ok(Head(udp).temperature)
    /\ last_update' = now
    /\ therm' = Head(udp).temperature
    /\ publish(OkValue(Head(udp).temperature))
    /\ notify
    /\ udp' = IF thread' = "loop" THEN Tail(udp) ELSE <<>>
    /\ UNCHANGED <<max_age, th_running, th_caller, temp_receiver, udpSent, now,
                   wpc, wseen, wret, waits>>
    /\ UNCHANGED <<next_callback_id, handles, reentrant, tres, orphans, dropped>>
    /\ UNCHANGED socketVars

\* the listener thread: recv_from returned a sample below absolute zero:
\* Celsius::new panics, the thread dies
ListenerPanic ==
    /\ thread = "loop"
    /\ th_running
    /\ udp # <<>>
    /\ Head(udp).kind = "sample"
    /\ ~celsius_ok(Head(udp).temperature)
    /\ thread' = "panicked"
    /\ udp' = <<>>
    /\ UNCHANGED <<therm, max_age, last_update, th_running, th_caller, temp_slot,
                   temp_version, temp_receiver, udpSent, now, wpc, wseen, wret, waits>>
    /\ UNCHANGED subVars
    /\ UNCHANGED socketVars

\* (mutant) a malformed datagram refreshes the timestamp
ListenerDropStamps ==
    /\ thread = "loop"
    /\ th_running
    /\ udp # <<>>
    /\ Head(udp).kind = "malformed"
    /\ udp' = Tail(udp)
    /\ last_update' = now
    /\ dropped' = dropped + 1
    /\ UNCHANGED <<callbacks, cb_mutex, next_callback_id, handles, reentrant, rounds,
                   last_round, tres, orphans>>
    /\ UNCHANGED <<therm, max_age, th_running, thread, th_caller, temp_slot,
                   temp_version, temp_receiver, udpSent, now, wpc, wseen, wret, waits>>
    /\ UNCHANGED socketVars

\* the listener thread: recv_from returned bytes that are no ThermData
ListenerDrop ==
    /\ thread = "loop"
    /\ th_running
    /\ udp # <<>>
    /\ Head(udp).kind = "malformed"
    /\ udp' = Tail(udp)
    /\ UNCHANGED <<therm, max_age, last_update, th_running, thread, th_caller, temp_slot,
                   temp_version, temp_receiver, udpSent, now, wpc, wseen, wret, waits>>
    /\ dropped' = dropped + 1
    /\ UNCHANGED <<callbacks, cb_mutex, next_callback_id, handles, reentrant, rounds,
                   last_round, tres, orphans>>
    /\ UNCHANGED socketVars

\* (mutant) an age check without the "never received" sentinel
is_stale_unset(timestamp, time) == time - timestamp > max_age

\* last_timestamp != 0 && now_ms() - last_timestamp > max_age
is_stale(timestamp, time) == timestamp # 0 /\ time - timestamp > max_age

\* the listener thread: recv_from returned no datagram: sleep one tick, then
\* the staleness check publishes Err(NoFreshData) (then the callbacks)
ListenerPoll ==
    /\ thread = "loop"
    /\ th_running
    /\ udp = <<>>
    /\ now < MaxTime
    /\ now' = now + 1
    /\ IF is_stale(last_update, now')
       THEN publish(NoFreshData) /\ notify
       ELSE UNCHANGED <<temp_slot, temp_version, thread, cb_mutex, callbacks, rounds,
                        last_round>>
    /\ UNCHANGED <<therm, max_age, last_update, th_running, th_caller,
                   temp_receiver, udp, udpSent, wpc, wseen, wret, waits>>
    /\ UNCHANGED <<next_callback_id, handles, reentrant, tres, orphans, dropped>>
    /\ UNCHANGED socketVars

\* a datagram reaches the bound socket
UdpArrive(d) ==
    /\ thread = "loop"
    /\ udpSent < MaxDatagrams
    /\ udp' = Append(udp, d)
    /\ udpSent' = udpSent + 1
    /\ UNCHANGED <<therm, max_age, last_update, th_running, thread, th_caller, temp_slot,
                   temp_version, temp_receiver, now, wpc, wseen, wret, waits>>
    /\ UNCHANGED subVars
    /\ UNCHANGED socketVars

\* time passes
Tick ==
    /\ now < MaxTime
    /\ now' = now + 1
    /\ UNCHANGED <<therm, max_age, last_update, th_running, thread, th_caller, temp_slot,
                   temp_version, temp_receiver, udp, udpSent, wpc, wseen, wret, waits>>
    /\ UNCHANGED subVars
    /\ UNCHANGED socketVars

\* wait_for_new_data(): self.temp_receiver.clone() copies the version the
\* controller's own Receiver has seen; then receiver.changed() is awaited
WaitBegin(w) ==
    /\ wpc[w] = "idle"
    /\ waits < MaxWaits
    /\ wseen' = [wseen EXCEPT ![w] = temp_receiver]
    /\ wret' = [wret EXCEPT ![w] = [NeverReturned EXCEPT !.start = temp_version]]
    /\ wpc' = [wpc EXCEPT ![w] = "waiting"]
    /\ waits' = waits + 1
    /\ UNCHANGED <<therm, max_age, last_update, th_running, thread, th_caller, temp_slot,
                   temp_version, temp_receiver, udp, udpSent, now>>
    /\ UNCHANGED subVars
    /\ UNCHANGED socketVars

\* changed() is ready when the channel's version differs from the version the
\* Receiver has seen
changed_ready(seen) == temp_version # seen

\* wait_for_new_data(): changed() returned Ok, the borrowed value is returned
\* (None as Err(NoFreshData))
WaitReturn(w) ==
    /\ wpc[w] = "waiting"
    /\ changed_ready(wseen[w])
    /\ wseen' = [wseen EXCEPT ![w] = temp_version]
    /\ wret' = [wret EXCEPT ![w] =
                  [kind |-> IF temp_slot.kind = "None" THEN "Err" ELSE temp_slot.kind,
                   t |-> temp_slot.t, start |-> wret[w].start, pub |-> temp_version]]
    /\ wpc' = [wpc EXCEPT ![w] = "idle"]
    /\ UNCHANGED <<therm, max_age, last_update, th_running, thread, th_caller, temp_slot,
                   temp_version, temp_receiver, udp, udpSent, now, waits>>
    /\ UNCHANGED subVars
    /\ UNCHANGED socketVars

(***************************************************************************)
(* ThermController: subscriptions, temperature()                           *)
(***************************************************************************)
SubInit ==
    /\ callbacks = {}
    /\ cb_mutex = "free"
    /\ next_callback_id = 0
    /\ handles = [id \in SubIds |-> "none"]
    /\ reentrant = [id \in SubIds |-> FALSE]
    /\ rounds = 0
    /\ last_round = {}
    /\ tres = NeverAsked
    /\ orphans = 0
    /\ dropped = 0

\* callbacks.insert(callback_id, callback), skipped when lock() fails
insert(cbs, id) == IF cb_mutex = "free" THEN cbs \cup {id} ELSE cbs

\* (mutant) a release that leaves the callback registered
remove_nothing(cbs, id) == cbs

\* callbacks.remove(&callback_id), skipped when lock() fails
remove(cbs, id) == IF cb_mutex = "free" THEN cbs \ {id} ELSE cbs

\* (mutant) on_temperature_change that hands out the lowest id not in use
SubscribeReusing(r) ==
    LET id == CHOOSE i \in SubIds :
                  /\ handles[i] # "live"
                  /\ \A j \in SubIds : handles[j] # "live" => i <= j
    IN  /\ next_callback_id < MaxSubs
        /\ cb_mutex # "held"
        /\ next_callback_id' = next_callback_id + 1
        /\ callbacks' = insert(callbacks, id)
        /\ handles' = [handles EXCEPT ![id] = "live"]
        /\ reentrant' = [reentrant EXCEPT ![id] = r]
        /\ UNCHANGED <<cb_mutex, rounds, last_round, tres, orphans, dropped>>
        /\ UNCHANGED thermVars
        /\ UNCHANGED socketVars

\* on_temperature_change(callback): r tells whether the callback releases a
\* subscription when it is invoked
Subscribe(r) ==
    /\ next_callback_id < MaxSubs
    /\ cb_mutex # "held"
    /\ next_callback_id' = next_callback_id + 1
    /\ callbacks' = insert(callbacks, next_callback_id)
    /\ handles' = [handles EXCEPT ![next_callback_id] = "live"]
    /\ reentrant' = [reentrant EXCEPT ![next_callback_id] = r]
    /\ UNCHANGED <<cb_mutex, rounds, last_round, tres, orphans, dropped>>
    /\ UNCHANGED thermVars
    /\ UNCHANGED socketVars

\* handle.unsubscribe(): removes the callback, then self is dropped, which
\* removes it once more
Unsubscribe(id) ==
    /\ handles[id] = "live"
    /\ cb_mutex # "held"
    /\ callbacks' = remove(remove(callbacks, id), id)
    /\ handles' = [handles EXCEPT ![id] = "released"]
    /\ UNCHANGED <<cb_mutex, next_callback_id, reentrant, rounds, last_round, tres,
                   orphans, dropped>>
    /\ UNCHANGED thermVars
    /\ UNCHANGED socketVars

\* the handle is dropped without unsubscribe()
HandleDrop(id) ==
    /\ handles[id] = "live"
    /\ cb_mutex # "held"
    /\ callbacks' = remove(callbacks, id)
    /\ handles' = [handles EXCEPT ![id] = "released"]
    /\ UNCHANGED <<cb_mutex, next_callback_id, reentrant, rounds, last_round, tres,
                   orphans, dropped>>
    /\ UNCHANGED thermVars
    /\ UNCHANGED socketVars

\* (mutant) the age limit is exclusive
temperature_result_exclusive(last, time, stored) ==
    IF last = 0 THEN NoFreshData
    ELSE IF time - last >= max_age THEN NoFreshData
    ELSE OkValue(stored)

\* temperature(): the sentinel, the age check, then the stored temperature
temperature_result(last, time, stored) ==
    IF last = 0 THEN NoFreshData
    ELSE IF time - last > max_age THEN NoFreshData
    ELSE OkValue(stored)

\* temperature()
ThermTemperature ==
    /\ tres' = [kind |-> temperature_result(last_update, now, therm).kind,
                t |-> temperature_result(last_update, now, therm).t,
                age |-> IF last_update = 0 THEN NoAge ELSE now - last_update,
                stored |-> therm]
    /\ tres' # tres
    /\ UNCHANGED <<callbacks, cb_mutex, next_callback_id, handles, reentrant, rounds,
                   last_round, orphans, dropped>>
    /\ UNCHANGED thermVars
    /\ UNCHANGED socketVars

(***************************************************************************)
(* The emulator with raw TCP clients                                       *)
(***************************************************************************)
Init == EmuInit /\ LifeInit /\ NetInit /\ CliInit /\ CtlIdle /\ ThermIdle /\ SubInit /\ HistInit
        /\ ExtIdle

Next ==
    \/ EmuStart
    \/ \E c \in Conns : ClientConnect(c)
    \/ \E c \in Conns, cmd \in SocketCommand : ClientSend(c, cmd)
    \/ \E c \in Conns : ClientRecv(c)
    \/ \E c \in Conns : HandlerReceive(c)
    \/ \E c \in Conns : HandlerApply(c)
    \/ \E c \in Conns : HandlerRespond(c)

Spec == Init /\ [][Next]_vars

(***************************************************************************)
(* The controller against the emulator                                     *)
(***************************************************************************)
InitCtl == EmuInit /\ LifeInit /\ NetInit /\ CliInit /\ CtlInit /\ ThermIdle /\ SubInit /\ HistInit
        /\ ExtIdle

NextCtl ==
    \/ EmuStart
    \/ \E cmd \in SocketCommand : CtlReuse(cmd)
    \/ \E cmd \in SocketCommand : CtlConnect(cmd)
    \/ \E cmd \in SocketCommand : CtlConnectRefused(cmd)
    \/ \E cmd \in SocketCommand : CtlConnectTimeout(cmd)
    \/ CtlRecv
    \/ CtlTimeout
    \/ CtlIoError
    \/ CtlDisconnect
    \/ \E c \in Conns : EnvBreak(c)
    \/ \E c \in Conns : DeviceReportsError(c)
    \/ \E c \in Conns : HandlerReceive(c)
    \/ \E c \in Conns : HandlerEof(c)
    \/ \E c \in Conns : HandlerReset(c)
    \/ \E c \in Conns : HandlerApply(c)
    \/ \E c \in Conns : HandlerRespond(c)
    \/ \E c \in Conns : HandlerRespondFail(c)

SpecCtl == InitCtl /\ [][NextCtl]_vars

(***************************************************************************)
(* Claims about the controller                                             *)
(***************************************************************************)
CallErrors == {"Timeout", "ConnectionError", "CommandError", "DeviceError"}

\* the TCP streams the controller holds open
HeldStreams == {c \in Conns : link[c] \in {"up", "broken"}}

\* C4: after a successful turn_on() the transport of the connection is closed
\* underneath the controller; the next power(), with the emulator reachable
\* and no further fault, returns Ok.
C4_ReconnectAfterForcedClose ==
    ( /\ cpc = "idle"
      /\ cop.cmd = "Power"
      /\ cop.prev = "turn_on_ok_broken"
      /\ cop.reach
      /\ cop.clean )
    => cres.res = "Ok"

\* C5: after a call failed in the send/receive round trip the controller holds
\* no connection.
C5_FailedRoundTripDropsConnection ==
    ( /\ cpc = "idle"
      /\ cres.stage = "roundtrip"
      /\ cres.res \in {"Timeout", "CommandError"} )
    => connection = NoConn

\* C6: after a call returned Ok the local model's active and power equal the
\* snapshot's, and power() returned the snapshot's power.
C6_LocalModelEqualsSnapshot ==
    (cpc = "idle" /\ cres.res = "Ok")
    => /\ socket.is_active = cres.data.active
       /\ socket.current_power = cres.data.power
       /\ cop.cmd = "Power" => cres.value = cres.data.power

\* C7: whenever a call returns an error the local model is what it was before
\* the call (it is untouched while the call waits, too), the error carries no
\* snapshot, and Ok is returned only with an Ok response read from the stream.
C7_ErrorLeavesLocalModel ==
    /\ (cpc = "idle" /\ cres.res \in CallErrors)
         => (socket = cop.before /\ cres.data = NoData)
    /\ cpc = "await" => socket = cop.before
    /\ cres.res = "Ok" => cres.data.result = "ok"

\* witness of C7: a call on a switched-on outlet returned DeviceError
C7_Witness ==
    /\ cpc = "idle"
    /\ cres.res = "DeviceError"
    /\ socket.is_active

\* C8: the controller holds at most one TCP stream, the one in `connection`;
\* new() opens none.
C8_AtMostOneConnection ==
    /\ Cardinality(HeldStreams) <= 1
    /\ HeldStreams = (IF connection = NoConn THEN {} ELSE {connection})
    /\ calls = 0 => connection = NoConn

\* witness of C8: a second connection is open after the first was found dead
C8_Witness ==
    /\ connection = 2
    /\ cop.prev # "disconnect"
    /\ link[1] = "cclosed"
    /\ link[2] = "up"

\* C9: disconnect() returns (unit), leaves no connection and the local model
\* as it was, whatever the state; the next turn_on/turn_off/power, with the
\* emulator reachable and no fault, returns Ok over a connection that did not
\* exist before.
C9_DisconnectThenLazyReconnect ==
    /\ cop.cmd = "disconnect"
         => /\ cpc = "idle"
            /\ cres.res = "Unit"
            /\ connection = NoConn
            /\ HeldStreams = {}
            /\ socket = cop.before
    /\ ( /\ cpc = "idle"
         /\ cop.cmd \in SocketCommand
         /\ cop.prev = "disconnect"
         /\ cop.reach
         /\ cop.clean )
       => /\ cres.res = "Ok"
          /\ connection # NoConn
          /\ connection \notin cop.used

\* witness of C9: connected, disconnected, and the next call reconnected
C9_Witness ==
    /\ cpc = "idle"
    /\ cop.cmd \in SocketCommand
    /\ cop.prev = "disconnect"
    /\ cop.used = {1}
    /\ cres.res = "Ok"
    /\ connection = 2

(***************************************************************************)
(* Claims about the emulator                                               *)
(***************************************************************************)
\* the outlet state after the first i commands of the log, applied one by one
RECURSIVE ReplayTo(_)
ReplayTo(i) ==
    IF i = 0 THEN SocketState_new(config.device_id)
    ELSE apply_command(log[i].cmd, ReplayTo(i - 1), config)

\* the response the n-th command of connection c received
Received(c, n) == cgot[c][n]

\* C1: concurrent clients see one serialized outlet state. The log is a total
\* order of all commands; every response a client has read is the snapshot
\* after replaying the log up to its command; each command saw the state its
\* predecessor left; a connection's commands are in the order it sent them; a
\* command sent after a response was read comes later in the order than that
\* response's command; and a Power sent by one client after a TurnOn of another
\* was answered (no TurnOff in between) reads active with the rated power.
C1_SerializedOutletState ==
    /\ \A c \in Conns : \A n \in 1..Len(cgot[c]) :
          /\ LogIdx(c, n) > 0
          /\ Received(c, n) = to_data(ReplayTo(LogIdx(c, n)))
    /\ \A i \in 1..Len(log) :
          /\ log[i].pre = ReplayTo(i - 1)
          /\ log[i].floor < i
    /\ \A i, j \in 1..Len(log) :
          (i < j /\ log[i].conn = log[j].conn) => log[i].k < log[j].k
    /\ \A i, j \in 1..Len(log) :
          ( /\ log[i].cmd = "TurnOn" /\ log[j].cmd = "Power"
            /\ log[i].conn # log[j].conn
            /\ i <= log[j].floor
            /\ \A m \in (i + 1)..(j - 1) : log[m].cmd # "TurnOff"
            /\ log[j].k <= Len(cgot[log[j].conn]) )
          => /\ Received(log[j].conn, log[j].k).active
             /\ Received(log[j].conn, log[j].k).power = config.power_rating

\* witness of C1: client 1 read the response to its TurnOn, client 2 then sent
\* Power and read its response
C1_Witness ==
    \E i, j \in 1..Len(log) :
        /\ i < j /\ log[i].conn = 1 /\ log[j].conn = 2
        /\ log[i].cmd = "TurnOn" /\ log[j].cmd = "Power"
        /\ log[j].floor = i
        /\ Len(cgot[2]) >= log[j].k

\* what the command is specified to leave behind
ExpectedAfter(cmd, pre) ==
    CASE cmd = "TurnOn"  -> [active |-> TRUE, current_power |-> config.power_rating,
                             device_id |-> config.device_id]
      [] cmd = "TurnOff" -> [active |-> FALSE, current_power |-> 0,
                             device_id |-> config.device_id]
      [] cmd = "Power"   -> pre

\* C2: the response to each command is Ok(snapshot of the state after that
\* command): TurnOn leaves {active, rated power}, TurnOff {inactive, 0}, Power
\* leaves the state as it was; the device_id is the configured one.
C2_ResponseIsSnapshotAfterCommand ==
    /\ \A i \in 1..Len(log) : log[i].post = ExpectedAfter(log[i].cmd, log[i].pre)
    /\ \A c \in Conns : \A n \in 1..Len(cgot[c]) :
          LET e == log[LogIdx(c, n)]
          IN Received(c, n) = [result |-> "ok", active |-> e.post.active,
                               power |-> e.post.current_power,
                               device_id |-> config.device_id]
    /\ \A c \in Conns : \A n \in 1..Len(s2c[c]) :
          s2c[c][n].result = "ok" /\ s2c[c][n].device_id = config.device_id

\* witness of C2: TurnOn, Power and TurnOff were all answered
C2_Witness ==
    /\ Len(log) = 3
    /\ {log[i].cmd : i \in 1..3} = SocketCommand
    /\ \A i \in 1..3 : log[i].k <= Len(cgot[log[i].conn])

\* C3: in every state of the shared outlet state, inactive means power 0 and
\* active means the configured rated power.
C3_ActivePowerInvariant ==
    /\ ~state.active => state.current_power = 0
    /\ state.active => state.current_power = config.power_rating

\* witness of C3: the outlet is on again after a TurnOff, commands of two clients
C3_Witness ==
    /\ state.active
    /\ \E i, j \in 1..Len(log) :
          i < j /\ log[i].cmd = "TurnOff" /\ log[j].cmd = "TurnOn"
          /\ log[i].conn # log[j].conn

(***************************************************************************)
(* The thermometer controller                                              *)
(***************************************************************************)
InitTherm == EmuInit /\ LifeInit /\ NetInit /\ CliInit /\ CtlIdle /\ ThermInit /\ SubInit /\ HistInit
        /\ ExtIdle

NextTherm ==
    \/ ThermStart
    \/ ThermStop
    \/ ThermJoin
    \/ ListenerBind
    \/ ListenerBindFail
    \/ ListenerExit
    \/ ListenerIngest
    \/ ListenerPanic
    \/ ListenerDrop
    \/ ListenerPoll
    \/ \E d \in Datagrams : UdpArrive(d)
    \/ Tick
    \/ \E w \in Waiters : WaitBegin(w)
    \/ \E w \in Waiters : WaitReturn(w)

SpecTherm == InitTherm /\ [][NextTherm]_vars

(***************************************************************************)
(* Claims about the thermometer controller                                 *)
(***************************************************************************)
\* C10: wait_for_new_data() returns only a value that was published after the
\* call began.
C10_WaitReturnsOnlyNewData ==
    \A w \in Waiters :
        (wpc[w] = "idle" /\ wret[w].kind # "none") => wret[w].pub > wret[w].start

(***************************************************************************)
(* The thermometer controller with subscribers                             *)
(***************************************************************************)
InitSub ==
    /\ EmuInit /\ config.power_rating = 1500
    /\ LifeInit /\ NetInit /\ CliInit /\ CtlIdle /\ ThermInit /\ SubInit /\ HistInit
    /\ ExtIdle

\* a valid sample
Sample == [kind |-> "sample", temperature |-> 21]

NextSub ==
    \/ ThermStart
    \/ ThermStop
    \/ ThermJoin
    \/ ListenerBind
    \/ ListenerExit
    \/ ListenerIngest
    \/ ListenerPoll
    \/ UdpArrive(Sample)
    \/ \E r \in BOOLEAN : Subscribe(r)
    \/ \E id \in SubIds : Unsubscribe(id)
    \/ \E id \in SubIds : HandleDrop(id)

SpecSub == InitSub /\ [][NextSub]_vars

\* the listener thread and the thread inside stop() are scheduled
SpecSubFair ==
    /\ SpecSub
    /\ WF_vars(ListenerBind)
    /\ WF_vars(ListenerExit)
    /\ WF_vars(ThermJoin)

(***************************************************************************)
(* The thermometer controller: start, stop, datagrams, temperature()       *)
(***************************************************************************)
NextLife ==
    \/ ThermStart
    \/ ThermStop
    \/ ThermJoin
    \/ ListenerBind
    \/ ListenerBindFail
    \/ ListenerExit
    \/ ListenerIngest
    \/ ListenerPanic
    \/ ListenerDrop
    \/ ListenerPoll
    \/ \E d \in Datagrams : UdpArrive(d)
    \/ Tick
    \/ ThermTemperature

SpecLife == InitSub /\ [][NextLife]_vars

(***************************************************************************)
(* Claims about subscriptions                                              *)
(***************************************************************************)
Released == {id \in SubIds : handles[id] = "released"}
Live == {id \in SubIds : handles[id] = "live"}

\* C11: a callback whose handle was released (unsubscribe() or drop) is not
\* invoked by any later notification round, and the registered callbacks are
\* exactly those of the handles not released (a second removal changes
\* nothing).
C11_ReleasedCallbackNeverInvoked ==
    /\ [](cb_mutex = "free" => callbacks = Live)
    /\ [][rounds' # rounds => last_round' \cap Released = {}]_vars

\* witness of C11: two subscriptions, the first released, and a round that
\* invoked the other one only
C11_Witness ==
    /\ handles[0] = "released"
    /\ handles[1] = "live"
    /\ rounds >= 1
    /\ last_round = {1}
    /\ callbacks = {1}

\* C12: a callback that releases a subscription during the notification round
\* leaves the listener running and blocks nothing: the listener never blocks
\* on the callbacks Mutex and the Mutex is never poisoned.
C12_ReentrantReleaseIsSafe ==
    /\ thread # "deadlocked"
    /\ cb_mutex = "free"

\* C14: stop() returns only after the listener thread has ended, and it
\* eventually returns.
C14_StopReturnsAfterListenerExit ==
    /\ []((th_caller = "idle" /\ ~th_running) => thread = "none")
    /\ (th_caller = "joining") ~> (th_caller = "idle")

(***************************************************************************)
(* Claims about start, stop, datagrams and temperature()                   *)
(***************************************************************************)
\* C13: temperature() returns NoFreshData exactly when no sample was ever
\* received or the sample's age is strictly greater than max_age; otherwise
\* Ok with the stored temperature.
C13_TemperatureFreshness ==
    tres.kind # "none" =>
        /\ tres.kind \in {"Ok", "Err"}
        /\ (tres.kind = "Err") <=> (tres.age = NoAge \/ tres.age > max_age)
        /\ tres.kind = "Ok" => tres.t = tres.stored

\* witness of C13: temperature() returned Ok for a sample exactly max_age old
C13_Witness ==
    /\ tres.kind = "Ok"
    /\ tres.age = max_age
    /\ tres.t = 21

\* C15: at most one listener thread exists: none runs without the JoinHandle
\* the controller holds, and a running controller holds one.
C15_AtMostOneListener ==
    /\ orphans = 0
    /\ th_running => thread # "none"

\* witness of C15: a listener spawned by a start() that followed a stop()
\* (a sample was received before it)
C15_Witness ==
    /\ thread = "spawned"
    /\ th_running
    /\ last_update # 0
    /\ orphans = 0

\* C16: when the listener could not bind its address the controller is not
\* left marked as running.
C16_BindFailureLeavesNotRunning ==
    thread = "bind_failed" => ~th_running

\* C17: a step of the listener that takes a malformed datagram changes neither
\* the stored temperature, nor the timestamp, nor the watch channel, starts
\* no notification round, and leaves the listener in its loop.
C17_MalformedDatagramDropped ==
    [][( /\ thread = "loop"
         /\ th_running
         /\ udp # <<>>
         /\ Head(udp).kind = "malformed"
         /\ udp' = Tail(udp) )
       => ( /\ therm' = therm
            /\ last_update' = last_update
            /\ temp_slot' = temp_slot
            /\ temp_version' = temp_version
            /\ rounds' = rounds
            /\ last_round' = last_round
            /\ thread' = "loop"
            /\ th_running' )]_vars

\* witness of C17: a malformed datagram was dropped, nothing was recorded, and
\* the listener is in its loop with a sample to take next
C17_Witness ==
    /\ dropped >= 1
    /\ thread = "loop"
    /\ th_running
    /\ last_update = 0
    /\ temp_version = 0
    /\ udp # <<>>
    /\ Head(udp).kind = "sample"

(***************************************************************************)
(* The emulator: start, stop, clients that leave or send invalid frames    *)
(***************************************************************************)
\* what a client sends here: a SocketCommand, or a frame that is none
Frames == {"TurnOn", "Invalid"}

InitEmu == Init /\ config.power_rating = 1500

\* start() before any connection exists
EmuStartFresh ==
    /\ \A c \in Conns : link[c] = "none"
    /\ EmuStart

\* a client sends one of at most MaxFrames frames
ClientSendFrame(c, cmd) ==
    /\ TotalSent < MaxFrames
    /\ ClientSend(c, cmd)

NextEmu ==
    \/ EmuStartFresh
    \/ EmuStop
    \/ AcceptLoopShutdown
    \/ EmuStopReturn
    \/ \E c \in Conns : ClientConnect(c)
    \/ \E c \in Conns, cmd \in Frames : ClientSendFrame(c, cmd)
    \/ \E c \in Conns : ClientRecv(c)
    \/ \E c \in Conns : ClientClose(c)
    \/ \E c \in Conns : HandlerReceive(c)
    \/ \E c \in Conns : HandlerReject(c)
    \/ \E c \in Conns : HandlerEof(c)
    \/ \E c \in Conns : HandlerApply(c)
    \/ \E c \in Conns : HandlerRespond(c)
    \/ \E c \in Conns : HandlerRespondFail(c)

SpecEmu == InitEmu /\ [][NextEmu]_vars

\* the accept loop task and the task inside stop() are scheduled
SpecEmuFair ==
    /\ SpecEmu
    /\ WF_lifeVars(AcceptLoopShutdown)
    /\ WF_lifeVars(EmuStopReturn)

(***************************************************************************)
(* Claims about the emulator's stop() and its connections                  *)
(***************************************************************************)
\* C18: once stop() has returned no connection handler is alive, and no
\* command sent after it is applied to the outlet state.
C18_NoHandlerSurvivesStop ==
    /\ Stopped => \A c \in Conns : hpc[c] \in {"none", "done"}
    /\ \A i \in 1..Len(log) : <<log[i].conn, log[i].k>> \notin late

\* C19: stop() returns only after the accept loop has finished; once it has
\* returned the loop accepts nothing and bound_addr is cleared; and stop()
\* always returns.
C19_StopAwaitsAcceptLoop ==
    /\ []((stop_pc = "idle" /\ ~running) => (server = "none" /\ ~bound_addr))
    /\ [][(stop_pc = "awaiting" /\ stop_pc' = "idle") => server = "finished"]_lifeVars
    /\ (stop_pc = "awaiting") ~> (stop_pc = "idle")

\* witness of C19: stop() has returned on an emulator that had accepted a
\* connection
C19_Witness ==
    /\ Stopped
    /\ shutdown_rx
    /\ \E c \in Conns : link[c] # "none"

MessageLimit == 1024 * 1024
\* four bytes of JSON text read as a big-endian u32: each byte is 0x20 or
\* more, so the number is 0x20202020 or more
GarbageLen == 538976288

\* frames written to the stream, and receive calls made on it
MaxWrites == 2
MaxReads == 2

None == [some |-> FALSE, s |-> ""]
Some(str) == [some |-> TRUE, s |-> str]
finite(x) == [class |-> "finite", x |-> x]
NaN == [class |-> "nan", x |-> 0]

\* #[serde(rename = ...)] of SocketCommand
CommandTags == {<<"TurnOn", "turn_on">>, <<"TurnOff", "turn_off">>, <<"Power", "power">>}
tag_of(c) == (CHOOSE p \in CommandTags : p[1] = c)[2]

\* error messages: the emulator's, one that makes the frame exactly
\* MessageLimit bytes long, and one a byte longer
Messages == {"Invalid command", "a x 1048545", "a x 1048546"}
Strings == {"turn_on", "turn_off", "power", "explode", "dev"} \cup Messages

\* serde_json writes a string between quotes
StringLiterals ==
    {<<"turn_on", "\"turn_on\"">>, <<"turn_off", "\"turn_off\"">>,
     <<"power", "\"power\"">>, <<"explode", "\"explode\"">>, <<"dev", "\"dev\"">>,
     <<"Invalid command", "\"Invalid command\"">>,
     <<"a x 1048545", "\"a x 1048545\"">>, <<"a x 1048546", "\"a x 1048546\"">>}
\* serde_json writes a finite f64 with a fraction
Numerals == {<<0, "0.0">>, <<21, "21.0">>, <<1500, "1500.0">>}
\* the length in bytes of every key and literal
Bytes ==
    {<<"command", 7>>, <<"result", 6>>, <<"active", 6>>, <<"power", 5>>,
     <<"device_id", 9>>, <<"message", 7>>, <<"temperature", 11>>,
     <<"\"turn_on\"", 9>>, <<"\"turn_off\"", 10>>, <<"\"power\"", 7>>,
     <<"\"explode\"", 9>>, <<"\"dev\"", 5>>, <<"\"ok\"", 4>>, <<"\"error\"", 7>>,
     <<"\"Invalid command\"", 17>>,
     <<"\"a x 1048545\"", 1048547>>, <<"\"a x 1048546\"", 1048548>>,
     <<"true", 4>>, <<"false", 5>>, <<"null", 4>>,
     <<"0.0", 3>>, <<"21.0", 4>>, <<"1500.0", 6>>}
bytes_of(str) == (CHOOSE p \in Bytes : p[1] = str)[2]

\* ---- serde_json::to_string
json_string(str) == (CHOOSE p \in StringLiterals : p[1] = str)[2]
json_bool(b) == IF b THEN "true" ELSE "false"
\* a NaN or an infinity is written as null
json_f64(f) == IF f.class = "finite"
               THEN (CHOOSE p \in Numerals : p[1] = f.x)[2]
               ELSE "null"
json_option(o) == IF o.some THEN json_string(o.s) ELSE "null"

serialize_command(v) == << <<"command", json_string(tag_of(v.command))>> >>

serialize_response(v) ==
    IF v.result = "ok"
    THEN << <<"result", "\"ok\"">>, <<"active", json_bool(v.active)>>,
            <<"power", json_f64(v.power)>>, <<"device_id", json_option(v.device_id)>> >>
    ELSE << <<"result", "\"error\"">>, <<"message", json_string(v.message)>> >>

serialize_therm(v) ==
    << <<"temperature", json_f64(v.temperature)>>,
       <<"device_id", json_option(v.device_id)>> >>

\* ---- serde_json::from_str: the set of the values a text decodes to, empty
\* when decoding fails
from_string(lit) == {p[1] : p \in {q \in StringLiterals : q[2] = lit}}
from_bool(lit) == {b \in BOOLEAN : json_bool(b) = lit}
from_f64(lit) == {finite(p[1]) : p \in {q \in Numerals : q[2] = lit}}
from_option(lit) == IF lit = "null" THEN {None} ELSE {Some(str) : str \in from_string(lit)}

from_command(text) ==
    IF Len(text) = 1 /\ text[1][1] = "command"
    THEN {[command |-> c] : c \in {d \in SocketCommand : json_string(tag_of(d)) = text[1][2]}}
    ELSE {}

from_response(text) ==
    IF Len(text) = 4 /\ text[1] = <<"result", "\"ok\"">> /\ text[2][1] = "active"
       /\ text[3][1] = "power" /\ text[4][1] = "device_id"
    THEN {[result |-> "ok", active |-> a, power |-> w, device_id |-> d] :
             a \in from_bool(text[2][2]), w \in from_f64(text[3][2]),
             d \in from_option(text[4][2])}
    ELSE IF Len(text) = 2 /\ text[1] = <<"result", "\"error\"">> /\ text[2][1] = "message"
    THEN {[result |-> "error", message |-> m] : m \in from_string(text[2][2])}
    ELSE {}

from_therm(text) ==
    IF Len(text) = 2 /\ text[1][1] = "temperature" /\ text[2][1] = "device_id"
    THEN {[temperature |-> t, device_id |-> d] :
             t \in from_f64(text[1][2]), d \in from_option(text[2][2])}
    ELSE {}

\* ---- bytes
RECURSIVE members_len(_)
members_len(text) ==
    IF text = <<>> THEN 0
    ELSE bytes_of(Head(text)[1]) + 3 + bytes_of(Head(text)[2])
         + (IF Len(text) > 1 THEN 1 ELSE 0) + members_len(Tail(text))
\* bytes.len() of the text: braces, keys in quotes, colons, commas
byte_len(text) == 2 + members_len(text)

header(length) == [k |-> "header", size |-> 4, value |-> length, text |-> <<>>]
payload(size, text) == [k |-> "payload", size |-> size, value |-> 0, text |-> text]
\* a payload that is not UTF-8, and what bytes out of place decode to
NonUtf8 == << <<"0xFF", "0xFE">> >>
Misread == << <<"?", "?">> >>

\* (mutant) a header that announces one byte less
send_message_short(text) == <<header(byte_len(text) - 1), payload(byte_len(text), text)>>

\* send_message: the length as 4 bytes big-endian, then the bytes
send_message(text) == <<header(byte_len(text)), payload(byte_len(text), text)>>

RECURSIVE available(_)
available(w) == IF w = <<>> THEN 0 ELSE Head(w).size + available(Tail(w))

\* what is left of the stream when n bytes were read from it
RECURSIVE read_exact(_, _)
read_exact(w, n) ==
    IF n = 0 \/ w = <<>> THEN w
    ELSE IF Head(w).size <= n THEN read_exact(Tail(w), n - Head(w).size)
    ELSE <<[Head(w) EXCEPT !.size = @ - n, !.text = Misread]>> \o Tail(w)

\* u32::from_be_bytes of the next four bytes
header_value(w) ==
    IF Head(w).k = "header" /\ Head(w).size = 4 THEN Head(w).value ELSE GarbageLen

\* the next length bytes as a text
payload_text(w, length) ==
    IF length = 0 THEN <<>>
    ELSE IF Head(w).k = "payload" /\ Head(w).size = length /\ Head(w).text # Misread
    THEN Head(w).text
    ELSE Misread

\* (mutant) a limit that refuses a frame of exactly MessageLimit bytes
too_large_at_limit(length) == length >= MessageLimit

\* if length > 1024 * 1024
too_large(length) == length > MessageLimit

\* receive_message on a stream whose writer is gone or has written enough:
\* read the header, check the limit, read the payload, check UTF-8
receive_message(w) ==
    IF available(w) < 4
    THEN [res |-> "Err", kind |-> "UnexpectedEof", class |-> "eof", header |-> -1,
          text |-> <<>>, rest |-> <<>>]
    ELSE LET length == header_value(w)
             w1 == read_exact(w, 4)
         IN  IF too_large(length)
             THEN [res |-> "Err", kind |-> "InvalidData", class |-> "size",
                   header |-> length, text |-> <<>>, rest |-> w1]
             ELSE IF available(w1) < length
             THEN [res |-> "Err", kind |-> "UnexpectedEof", class |-> "eof",
                   header |-> length, text |-> <<>>, rest |-> <<>>]
             ELSE IF payload_text(w1, length) = NonUtf8
             THEN [res |-> "Err", kind |-> "InvalidData", class |-> "utf8",
                   header |-> length, text |-> <<>>, rest |-> read_exact(w1, length)]
             ELSE [res |-> "Ok", kind |-> "none", class |-> "none",
                   header |-> length, text |-> payload_text(w1, length),
                   rest |-> read_exact(w1, length)]

\* read_exact waits while the writer may still write what is missing
would_block(w) ==
    \/ available(w) < 4
    \/ /\ ~too_large(header_value(w))
       /\ available(w) - 4 < header_value(w)

\* ---- the values written in the model
CommandValues == {[command |-> c] : c \in SocketCommand}
ResponseValues ==
    {[result |-> "ok", active |-> TRUE, power |-> finite(1500), device_id |-> Some("dev")],
     [result |-> "ok", active |-> FALSE, power |-> NaN, device_id |-> None]}
    \cup {[result |-> "error", message |-> m] : m \in {"a x 1048545", "a x 1048546"}}
ThermValues ==
    {[temperature |-> finite(21), device_id |-> Some("dev")],
     [temperature |-> NaN, device_id |-> None]}
\* frames written by hand: an empty payload, an unknown command, bytes that
\* are not UTF-8, a header without its payload, a header above the limit
RawFrames == {"empty", "unknown", "non_utf8", "truncated", "oversize"}
raw_frame(f) ==
    CASE f = "empty" -> <<header(0)>>
      [] f = "unknown" -> send_message(<< <<"command", json_string("explode")>> >>)
      [] f = "non_utf8" -> <<header(2), payload(2, NonUtf8)>>
      [] f = "truncated" -> <<header(21)>>
      [] f = "oversize" -> <<header(MessageLimit + 1)>>

\* send_command / send_response: serialize, then send_message
WireSend(type, v) ==
    /\ ~peer_closed
    /\ Len(tx_log) < MaxWrites
    /\ wire' = wire \o send_message(IF type = "command" THEN serialize_command(v)
                                    ELSE serialize_response(v))
    /\ tx_log' = Append(tx_log, [type |-> type, value |-> {v}])
    /\ UNCHANGED <<peer_closed, rx_log, datagram>>
    /\ UNCHANGED <<tcpVars, thermVars, subVars, raceVars, apiVars, frameVars, temuVars>>

\* a peer that writes the bytes itself
WireSendRaw(f) ==
    /\ ~peer_closed
    /\ Len(tx_log) < MaxWrites
    /\ wire' = wire \o raw_frame(f)
    /\ tx_log' = Append(tx_log, [type |-> f, value |-> {}])
    /\ UNCHANGED <<peer_closed, rx_log, datagram>>
    /\ UNCHANGED <<tcpVars, thermVars, subVars, raceVars, apiVars, frameVars, temuVars>>

\* the writer closes its end
WireClose ==
    /\ ~peer_closed
    /\ peer_closed' = TRUE
    /\ UNCHANGED <<wire, tx_log, rx_log, datagram>>
    /\ UNCHANGED <<tcpVars, thermVars, subVars, raceVars, apiVars, frameVars, temuVars>>

\* receive_command / receive_response: receive_message, then from_str
WireReceive(type) ==
    /\ Len(rx_log) < MaxReads
    /\ peer_closed \/ ~would_block(wire)
    /\ LET r == receive_message(wire)
           decoded == IF r.res = "Err" THEN {}
                      ELSE IF type = "command" THEN from_command(r.text)
                      ELSE from_response(r.text)
           failed == r.res = "Ok" /\ decoded = {}
       IN  /\ rx_log' = Append(rx_log,
                   [type |-> type,
                    res |-> IF failed THEN "Err" ELSE r.res,
                    kind |-> IF failed THEN "InvalidData" ELSE r.kind,
                    class |-> IF failed THEN "json" ELSE r.class,
                    value |-> decoded,
                    header |-> r.header,
                    used |-> available(wire) - available(r.rest)])
           /\ wire' = r.rest
    /\ UNCHANGED <<peer_closed, tx_log, datagram>>
    /\ UNCHANGED <<tcpVars, thermVars, subVars, raceVars, apiVars, frameVars, temuVars>>

\* ThermData as one JSON datagram: serde_json::to_string, from_slice
ThermDatagram(v) ==
    /\ datagram' = [sent |-> {v}, got |-> from_therm(serialize_therm(v))]
    /\ datagram' # datagram
    /\ UNCHANGED <<wire, peer_closed, tx_log, rx_log>>
    /\ UNCHANGED <<tcpVars, thermVars, subVars, raceVars, apiVars, frameVars, temuVars>>

(***************************************************************************)
(* ThermEmulator (emulators/therm_emulator.rs)                             *)
(*                                                                         *)
(* A temperature is an f64.  Two ranges of it are modelled, both counted   *)
(* in half degrees: the ordinary one, where every half degree is an f64    *)
(* and sums are exact, and the one around 2^53, [big |-> TRUE, h |-> n]    *)
(* standing for 2^53 + n/2, where 53 bits of mantissa leave only the even  *)
(* numbers from 2^53 up and the whole numbers below it.                    *)
(***************************************************************************)
\* datagrams the loop sends in total
MaxSends == 2

Scenarios == {"Normal", "Fire", "Freeze", "Fluctuate"}
\* ThermEmulator::new(20.0) of the tests, and ThermEmulator::new(2^53)
EmuTemps == {[big |-> FALSE, h |-> 40], [big |-> TRUE, h |-> 0]}

\* x rounded to a multiple of g, a tie to the even multiple (round to
\* nearest, ties to even mantissa)
round_to(x, g) ==
    LET q == x \div g
        r == x - q * g
    IN  IF 2 * r < g THEN q * g
        ELSE IF 2 * r > g THEN (q + 1) * g
        ELSE IF q % 2 = 0 THEN q * g ELSE (q + 1) * g

\* f64 addition: t + d, d in half degrees
f64_add(t, d) ==
    IF ~t.big THEN [big |-> FALSE, h |-> t.h + d]
    ELSE [big |-> TRUE, h |-> round_to(t.h + d, IF t.h + d >= 0 THEN 4 ELSE 2)]

\* (mutant) a Fire scenario that may leave the temperature where it is
scenario_steps_flat(sc) ==
    CASE sc = "Normal" -> {-1, 0, 1}
      [] sc = "Fire" -> {0, 4, 6}
      [] sc = "Freeze" -> {-6, -4, 0}
      [] sc = "Fluctuate" -> {-4, 0, 4}

\* random_range(..): both ends of each range and its middle, in half
\* degrees; Freeze subtracts a number from 1.0..=3.0
scenario_steps(sc) ==
    CASE sc = "Normal" -> {-1, 0, 1}
      [] sc = "Fire" -> {2, 4, 6}
      [] sc = "Freeze" -> {-6, -4, -2}
      [] sc = "Fluctuate" -> {-4, 0, 4}

\* update_temperature with the number the generator returned
update_temperature(t, d) == f64_add(t, d)

\* ThermEmulator::new(initial_temp).with_scenario(scenario), connect_to(addr)
TemuInit ==
    /\ te_running = FALSE
    /\ te_thread = "none"
    /\ te_caller = "idle"
    /\ initial_temp \in EmuTemps
    /\ current_temp = initial_temp
    /\ scenario \in Scenarios
    /\ te_sent = 0
    /\ te_prev = {}
    /\ te_orphans = 0
    /\ te_late = 0

te_alive(t) == t \in {"spawned", "loop", "body", "sleeping"}

\* (mutant) start() without the check of running
TemuStartAlways ==
    /\ te_caller = "idle"
    /\ te_running' = TRUE
    /\ te_thread' = "spawned"
    /\ te_orphans' = te_orphans + (IF te_alive(te_thread) THEN 1 ELSE 0)
    /\ current_temp' = initial_temp
    /\ te_prev' = {}
    /\ te_caller' = IF te_running THEN "panicked" ELSE "idle"
    /\ UNCHANGED <<initial_temp, scenario, te_sent, te_late>>
    /\ UNCHANGED <<tcpVars, thermVars, subVars, raceVars, apiVars, frameVars, wireVars>>

\* start() when running: panic!("Emulator already running!")
TemuStartAgain ==
    /\ te_caller = "idle"
    /\ te_running
    /\ te_caller' = "panicked"
    /\ UNCHANGED <<te_running, te_thread, initial_temp, current_temp, scenario,
                   te_sent, te_prev, te_orphans, te_late>>
    /\ UNCHANGED <<tcpVars, thermVars, subVars, raceVars, apiVars, frameVars, wireVars>>

\* start(): running = true, the thread is spawned with current_temp =
\* initial_temp, its handle replaces thread_handle
TemuStart ==
    /\ te_caller = "idle"
    /\ ~te_running
    /\ te_running' = TRUE
    /\ te_thread' = "spawned"
    /\ te_orphans' = te_orphans + (IF te_alive(te_thread) THEN 1 ELSE 0)
    /\ current_temp' = initial_temp
    /\ te_prev' = {}
    /\ UNCHANGED <<te_caller, initial_temp, scenario, te_sent, te_late>>
    /\ UNCHANGED <<tcpVars, thermVars, subVars, raceVars, apiVars, frameVars, wireVars>>

\* stop(): running = false, then thread_handle.take()
TemuStop ==
    /\ te_caller = "idle"
    /\ te_running' = FALSE
    /\ te_caller' = "joining"
    /\ UNCHANGED <<te_thread, initial_temp, current_temp, scenario, te_sent,
                   te_prev, te_orphans, te_late>>
    /\ UNCHANGED <<tcpVars, thermVars, subVars, raceVars, apiVars, frameVars, wireVars>>

\* the emulator is dropped while start() unwinds: drop() calls stop()
TemuDrop ==
    /\ te_caller = "panicked"
    /\ te_running' = FALSE
    /\ te_caller' = "dropping"
    /\ UNCHANGED <<te_thread, initial_temp, current_temp, scenario, te_sent,
                   te_prev, te_orphans, te_late>>
    /\ UNCHANGED <<tcpVars, thermVars, subVars, raceVars, apiVars, frameVars, wireVars>>

\* (mutant) stop() that does not join the thread
TemuJoinNoWait ==
    /\ te_caller \in {"joining", "dropping"}
    /\ te_orphans' = te_orphans + (IF te_alive(te_thread) THEN 1 ELSE 0)
    /\ te_caller' = IF te_caller = "joining" THEN "idle" ELSE "gone"
    /\ UNCHANGED <<te_running, te_thread, initial_temp, current_temp, scenario,
                   te_sent, te_prev, te_late>>
    /\ UNCHANGED <<tcpVars, thermVars, subVars, raceVars, apiVars, frameVars, wireVars>>

\* stop(): without a handle it returns at once; handle.join() returns when
\* the thread has ended
TemuJoin ==
    /\ te_caller \in {"joining", "dropping"}
    /\ te_thread \in {"none", "exited", "bind_failed"}
    /\ te_thread' = "none"
    /\ te_caller' = IF te_caller = "joining" THEN "idle" ELSE "gone"
    /\ UNCHANGED <<te_running, initial_temp, current_temp, scenario, te_sent,
                   te_prev, te_orphans, te_late>>
    /\ UNCHANGED <<tcpVars, thermVars, subVars, raceVars, apiVars, frameVars, wireVars>>

\* the thread: UdpSocket::bind("0.0.0.0:0") succeeded
TemuBind ==
    /\ te_thread = "spawned"
    /\ te_thread' = "loop"
    /\ UNCHANGED <<te_running, te_caller, initial_temp, current_temp, scenario,
                   te_sent, te_prev, te_orphans, te_late>>
    /\ UNCHANGED <<tcpVars, thermVars, subVars, raceVars, apiVars, frameVars, wireVars>>

\* the thread: bind failed, return; running stays as it is
TemuBindFail ==
    /\ te_thread = "spawned"
    /\ te_thread' = "bind_failed"
    /\ UNCHANGED <<te_running, te_caller, initial_temp, current_temp, scenario,
                   te_sent, te_prev, te_orphans, te_late>>
    /\ UNCHANGED <<tcpVars, thermVars, subVars, raceVars, apiVars, frameVars, wireVars>>

\* while running.load(): true
TemuCheck ==
    /\ te_thread = "loop"
    /\ te_running
    /\ te_sent < MaxSends
    /\ te_thread' = "body"
    /\ UNCHANGED <<te_running, te_caller, initial_temp, current_temp, scenario,
                   te_sent, te_prev, te_orphans, te_late>>
    /\ UNCHANGED <<tcpVars, thermVars, subVars, raceVars, apiVars, frameVars, wireVars>>

\* while running.load(): false; the thread ends
TemuLoopExit ==
    /\ te_thread = "loop"
    /\ ~te_running
    /\ te_thread' = "exited"
    /\ UNCHANGED <<te_running, te_caller, initial_temp, current_temp, scenario,
                   te_sent, te_prev, te_orphans, te_late>>
    /\ UNCHANGED <<tcpVars, thermVars, subVars, raceVars, apiVars, frameVars, wireVars>>

\* the loop body: update_temperature, send_temperature_data, then sleep
TemuStep(d) ==
    /\ te_thread = "body"
    /\ d \in scenario_steps(scenario)
    /\ current_temp' = update_temperature(current_temp, d)
    /\ te_prev' = {current_temp}
    /\ te_sent' = te_sent + 1
    /\ te_late' = te_late + (IF te_caller = "idle" /\ ~te_running THEN 1 ELSE 0)
    /\ te_thread' = "sleeping"
    /\ UNCHANGED <<te_running, te_caller, initial_temp, scenario, te_orphans>>
    /\ UNCHANGED <<tcpVars, thermVars, subVars, raceVars, apiVars, frameVars, wireVars>>

\* thread::sleep(interval) is over
TemuWake ==
    /\ te_thread = "sleeping"
    /\ te_thread' = "loop"
    /\ UNCHANGED <<te_running, te_caller, initial_temp, current_temp, scenario,
                   te_sent, te_prev, te_orphans, te_late>>
    /\ UNCHANGED <<tcpVars, thermVars, subVars, raceVars, apiVars, frameVars, wireVars>>

(***************************************************************************)
(* SocketEmulator::start() as its caller sees it                           *)
(***************************************************************************)
\* start() calls made in total
MaxStarts == 3

\* (mutant) a start() on a running emulator that binds and spawns again
ApiStartAgainRebinds ==
    /\ stop_pc = "idle"
    /\ running
    /\ starts < MaxStarts
    /\ start_res' = "Ok"
    /\ starts' = starts + 1
    /\ shutdown_rx' = FALSE
    /\ server' = "accepting"
    /\ bound_addr' = TRUE
    /\ UNCHANGED <<stop_pc, late>>
    /\ UNCHANGED <<emuVars, netVars, cliVars, histVars>>
    /\ UNCHANGED ctlVars
    /\ UNCHANGED <<thermVars, subVars, raceVars, frameVars, wireVars, temuVars>>

\* start() on a running emulator: Err(AlreadyExists), before anything else
ApiStartAgain ==
    /\ stop_pc = "idle"
    /\ running
    /\ starts < MaxStarts
    /\ start_res' = "AlreadyExists"
    /\ starts' = starts + 1
    /\ UNCHANGED lifeVars
    /\ UNCHANGED <<emuVars, netVars, cliVars, histVars>>
    /\ UNCHANGED ctlVars
    /\ UNCHANGED <<thermVars, subVars, raceVars, frameVars, wireVars, temuVars>>

\* start(): TcpListener::bind or local_addr failed, the error is returned by ?
ApiStartBindFails ==
    /\ stop_pc = "idle"
    /\ ~running
    /\ starts < MaxStarts
    /\ start_res' = "BindError"
    /\ starts' = starts + 1
    /\ UNCHANGED lifeVars
    /\ UNCHANGED <<emuVars, netVars, cliVars, histVars>>
    /\ UNCHANGED ctlVars
    /\ UNCHANGED <<thermVars, subVars, raceVars, frameVars, wireVars, temuVars>>

\* start(): bound, bound_addr = Some, running = true, the accept loop is
\* spawned, Ok(())
ApiStart ==
    /\ stop_pc = "idle"
    /\ ~running
    /\ starts < MaxStarts
    /\ start_res' = "Ok"
    /\ starts' = starts + 1
    /\ running' = TRUE
    /\ bound_addr' = TRUE
    /\ shutdown_rx' = FALSE
    /\ server' = "accepting"
    /\ UNCHANGED <<stop_pc, late>>
    /\ UNCHANGED <<config, state, state_lock, hpc, hcmd>>
    /\ UNCHANGED <<netVars, cliVars, histVars>>
    /\ UNCHANGED ctlVars
    /\ UNCHANGED <<thermVars, subVars, raceVars, frameVars, wireVars, temuVars>>

\* is_running() and local_addr().is_ok()
is_running == running
local_addr_ok == bound_addr

NextApi ==
    \/ ApiStart
    \/ ApiStartAgain
    \/ ApiStartBindFails
    \/ EmuStop
    \/ AcceptLoopShutdown
    \/ EmuStopReturn
    \/ \E c \in Conns : ClientConnect(c)
    \/ \E c \in Conns : ClientClose(c)
    \/ \E c \in Conns : HandlerEof(c)

SpecApi == InitEmu /\ [][NextApi]_vars

(***************************************************************************)
(* handle_client and frames it cannot decode                               *)
(***************************************************************************)
\* what a client writes: a command, a well-framed payload that is no
\* command, a header that announces more than MessageLimit bytes
AllFrames == {"TurnOn", "Invalid", "Oversize"}

\* a client writes one of at most MaxFrames frames
ClientWrite(c, f) ==
    /\ TotalSent < MaxFrames
    /\ ClientSend(c, f)

NextFrame ==
    \/ EmuStartFresh
    \/ \E c \in Conns : ClientConnect(c)
    \/ \E c \in Conns, f \in AllFrames : ClientWrite(c, f)
    \/ \E c \in Conns : ClientRecv(c)
    \/ \E c \in Conns : ClientClose(c)
    \/ \E c \in Conns : HandlerReceive(c)
    \/ \E c \in Conns : HandlerReject(c)
    \/ \E c \in Conns : HandlerEof(c)
    \/ \E c \in Conns : HandlerApply(c)
    \/ \E c \in Conns : HandlerRespond(c)
    \/ \E c \in Conns : HandlerRespondFail(c)

SpecFrame == InitEmu /\ [][NextFrame]_vars

(***************************************************************************)
(* The wire format and the thermometer emulator on their own               *)
(***************************************************************************)
NextWire ==
    \/ \E v \in CommandValues : WireSend("command", v)
    \/ \E v \in ResponseValues : WireSend("response", v)
    \/ \E f \in RawFrames : WireSendRaw(f)
    \/ WireClose
    \/ \E type \in {"command", "response"} : WireReceive(type)
    \/ \E v \in ThermValues : ThermDatagram(v)

SpecWire == InitEmu /\ [][NextWire]_vars

InitTemu ==
    /\ EmuInit /\ config.power_rating = 1500
    /\ LifeInit /\ NetInit /\ CliInit /\ CtlIdle /\ ThermIdle /\ SubInit /\ HistInit
    /\ ApiInit /\ FrameInit /\ WireInit /\ TemuInit /\ RaceInit

NextTemu ==
    \/ TemuStart
    \/ TemuStartAgain
    \/ TemuDrop
    \/ TemuStop
    \/ TemuJoin
    \/ TemuBind
    \/ TemuBindFail
    \/ TemuCheck
    \/ TemuLoopExit
    \/ \E d \in -6..6 : TemuStep(d)
    \/ TemuWake

SpecTemu == InitTemu /\ [][NextTemu]_vars

\* the thread is scheduled, a sleep ends, a join of an ended thread returns
SpecTemuFair ==
    /\ SpecTemu
    /\ WF_temuVars(TemuJoin)
    /\ WF_temuVars(TemuBind \/ TemuBindFail)
    /\ WF_temuVars(TemuLoopExit)
    /\ WF_temuVars(\E d \in -6..6 : TemuStep(d))
    /\ WF_temuVars(TemuWake)

(***************************************************************************)
(* Claims about frames the emulator cannot decode                          *)
(***************************************************************************)
\* C21: once receiving a frame on a connection has failed with an
\* unrecoverable decode error (a declared length above the limit, which
\* leaves the stream out of frame alignment), the handler of that connection
\* reads nothing more from that stream as a frame.
C21_DecodeErrorClosesConnection ==
    \A c \in Conns : desync[c] # "reused"

\* C22: a correctly framed payload that is no Command is answered with
\* exactly one Error response, on that connection only, without touching the
\* outlet state, and the handler goes on receiving on that connection.
C22_InvalidCommandAnswered ==
    [][\A c \in Conns :
          (/\ hpc[c] = "recv"
           /\ c2s[c] # <<>>
           /\ Head(c2s[c]).cmd = "Invalid"
           /\ c2s'[c] = Tail(c2s[c]))
          => /\ state' = state
             /\ state_lock' = state_lock
             /\ log' = log
             /\ link' = link
             /\ hpc'[c] = "recv"
             /\ link[c] = "up" =>
                    s2c'[c] = Append(s2c[c], [result |-> "error",
                                              message |-> "Invalid command"])
             /\ \A d \in Conns \ {c} : s2c'[d] = s2c[d] /\ hpc'[d] = hpc[d]]_c2s

\* witness of C22: a client has read an Error response and then, on the same
\* connection, the answer to a valid command
C22_Witness ==
    \E c \in Conns :
        /\ desync[c] = "aligned"
        /\ Len(cgot[c]) = 2
        /\ cgot[c][1].result = "error"
        /\ cgot[c][2].result = "ok"
        /\ cgot[c][2].active

(***************************************************************************)
(* Claims about SocketEmulator::start(), is_running() and local_addr()     *)
(***************************************************************************)
\* C23: start() on a running emulator fails with AlreadyExists and changes
\* nothing: the emulator keeps running with the same bound address and
\* accept loop, and the outlet state and the connections are untouched.
C23_SecondStartRefused ==
    [][(starts' # starts /\ is_running)
          => /\ start_res' = "AlreadyExists"
             /\ UNCHANGED <<lifeVars, emuVars, netVars>>]_apiVars

\* witness of C23: a start() was refused and the emulator is serving
C23_Witness ==
    /\ start_res = "AlreadyExists"
    /\ is_running
    /\ local_addr_ok
    /\ server = "accepting"
    /\ \E c \in Conns : link[c] = "up"

\* C24: between API calls local_addr() is Ok exactly when is_running() is
\* true.
C24_AddrIffRunning ==
    stop_pc = "idle" => (local_addr_ok <=> is_running)

\* witness of C24: started again after a stop() that had returned, or after
\* a start() that had failed
C24_Witness ==
    /\ starts >= 2
    /\ start_res = "Ok"
    /\ stop_pc = "idle"
    /\ is_running
    /\ local_addr_ok

(***************************************************************************)
(* Claims about the wire format                                            *)
(***************************************************************************)
\* the i-th receive call read the i-th frame written, as the type it was
\* written as, and so did the calls before it
in_step(i) ==
    /\ i <= Len(tx_log)
    /\ \A j \in 1..i : tx_log[j].type = rx_log[j].type

\* a value whose numbers are finite
finite_value(v) ==
    /\ "power" \in DOMAIN v => v.power.class = "finite"
    /\ "temperature" \in DOMAIN v => v.temperature.class = "finite"

\* a written value whose frame is within the limit
fits(e) ==
    \A v \in e.value :
        byte_len(IF e.type = "command" THEN serialize_command(v)
                 ELSE serialize_response(v)) <= MessageLimit

C26_FrameSizeLimit ==
    \A i \in 1..Len(rx_log) :
        /\ rx_log[i].header > 1048576
              => /\ rx_log[i].res = "Err"
                 /\ rx_log[i].class = "size"
                 /\ rx_log[i].used = 4
        /\ (rx_log[i].header \in 0..1048576 /\ rx_log[i].class # "eof")
              => rx_log[i].used = 4 + rx_log[i].header

\* witness of C26: a frame of exactly 1,048,576 bytes was received, and a
\* frame of one byte more was refused
C26_Witness ==
    \E i, j \in 1..Len(rx_log) :
        /\ rx_log[i].header = 1048576
        /\ rx_log[i].res = "Ok"
        /\ rx_log[j].header = 1048577
        /\ rx_log[j].used = 4

\* C27: a JSON decoding failure and a framing failure (size limit exceeded,
\* end of stream inside a frame) never have the same error kind.
C27_DecodeAndFramingKindsDiffer ==
    \A i, j \in 1..Len(rx_log) :
        (rx_log[i].class = "json" /\ rx_log[j].class \in {"size", "eof"})
        => rx_log[i].kind # rx_log[j].kind

(***************************************************************************)
(* Claims about the thermometer emulator                                   *)
(***************************************************************************)
\* the bounds of one step, in half degrees
step_bounds(sc) ==
    CASE sc = "Normal" -> <<-1, 1>>
      [] sc = "Fire" -> <<2, 6>>
      [] sc = "Freeze" -> <<-6, -2>>
      [] sc = "Fluctuate" -> <<-4, 4>>

\* from temperature p one step has led to temperature t within the bounds
\* of the scenario, upwards for Fire and downwards for Freeze
step_within(p, t, sc) ==
    /\ t.big = p.big
    /\ t.h - p.h >= step_bounds(sc)[1]
    /\ t.h - p.h <= step_bounds(sc)[2]
    /\ sc = "Fire" => t.h > p.h
    /\ sc = "Freeze" => t.h < p.h

\* C28 as stated: from any temperature t one step yields a value in
\* [t+1, t+3] for Fire, [t-3, t-1] for Freeze, [t-0.5, t+0.5] for Normal,
\* [t-2, t+2] for Fluctuate; Fire strictly increases, Freeze strictly decreases.
C28_ScenarioBoundsAnyTemperature ==
    \A p \in te_prev : step_within(p, current_temp, scenario)

\* C28, amended: the same, for temperatures of a magnitude at which f64
\* represents every sum exactly.
C28_ScenarioBounds ==
    \A p \in te_prev : ~p.big => step_within(p, current_temp, scenario)

\* witness of C28: two Fire steps from 20.0
C28_Witness ==
    /\ scenario = "Fire"
    /\ ~initial_temp.big
    /\ te_sent = 2
    /\ te_prev # {}
    /\ current_temp.h >= initial_temp.h + 4

\* C29: start() on a running emulator panics and leaves the thread, the
\* flag and the loop count as they are; a thread is spawned only when none
\* is alive, so at most one emulation loop exists.
C29_AtMostOneLoop ==
    [][/\ (te_caller # "panicked" /\ te_caller' = "panicked")
           => (te_running /\ UNCHANGED <<te_running, te_thread, te_orphans>>)
       /\ (te_thread' = "spawned" /\ te_thread # "spawned")
           => (~te_running /\ ~te_alive(te_thread))
       /\ te_orphans' = 0]_<<te_caller, te_thread, te_orphans>>

\* witness of C29: start() has panicked while the loop was running
C29_Witness ==
    /\ te_caller = "panicked"
    /\ te_thread \in {"loop", "body", "sleeping"}
    /\ te_sent >= 1

\* C30: stop() eventually returns, and only after the loop has ended; no
\* datagram is sent after it returned; a stop() with nothing to stop
\* changes nothing.
C30_StopJoinsLoop ==
    /\ (te_caller = "joining") ~> (te_caller = "idle")
    /\ [](te_late = 0)
    /\ [][(te_caller = "joining" /\ te_caller' = "idle")
             => (~te_alive(te_thread) /\ te_thread' = "none" /\ ~te_running')]_te_caller
    /\ [][(te_caller = "idle" /\ te_caller' = "joining" /\ ~te_running
              /\ te_thread = "none")
             => UNCHANGED <<te_running, te_thread, current_temp, te_sent>>]_te_caller

\* witness of C30: started again after a stop() that ended a sending loop
C30_Witness ==
    /\ te_caller = "idle"
    /\ te_running
    /\ te_thread = "spawned"
    /\ te_sent >= 1

(***************************************************************************)
(* SocketEmulator: the accept loop when accept() fails                     *)
(***************************************************************************)
\* the accept loop: listener.accept() returned Err, eprintln!, break; the task
\* ends and the listener is dropped; running and bound_addr are not touched
AcceptLoopError ==
    /\ server = "accepting"
    /\ server' = "finished"
    /\ UNCHANGED <<shutdown_rx, stop_pc, bound_addr, late>>
    /\ UNCHANGED <<emuVars, netVars, cliVars, histVars>>
    /\ UNCHANGED ctlVars
    /\ UNCHANGED <<thermVars, subVars, extVars>>

NextAccept ==
    \/ ApiStart
    \/ ApiStartAgain
    \/ ApiStartBindFails
    \/ EmuStop
    \/ AcceptLoopShutdown
    \/ AcceptLoopError
    \/ EmuStopReturn
    \/ \E c \in Conns : ClientConnect(c)
    \/ \E c \in Conns : ClientClose(c)
    \/ \E c \in Conns : HandlerEof(c)

SpecAccept == InitEmu /\ [][NextAccept]_vars

\* C39: whenever is_running() is true the accept loop is alive, so the
\* emulator is never running, bound and refusing start() while nothing can
\* be accepted.
C39_RunningMeansAccepting ==
    is_running => server = "accepting"

\* C38: while it is running the listener survives every datagram: a
\* well-formed sample with a temperature below -273.15 does not end the
\* thread, so later valid datagrams are still ingested.
C38_ListenerSurvivesEveryDatagram ==
    [][(thread = "loop" /\ th_running) => thread' = "loop"]_thread

(***************************************************************************)
(* ThermEmulator started near absolute zero                                *)
(***************************************************************************)
\* initial temperatures of -272.0 and -273.0 degrees, in half degrees
ColdTemps == {[big |-> FALSE, h |-> -544], [big |-> FALSE, h |-> -546]}

\* value >= ABSOLUTE_ZERO_C (-273.15), for a temperature in half degrees
at_least_absolute_zero(t) == t.big \/ 10 * t.h >= -5463

\* ThermEmulator::new(initial_temp) takes any f64: here one of ColdTemps
ColdInit ==
    /\ te_running = FALSE
    /\ te_thread = "none"
    /\ te_caller = "idle"
    /\ initial_temp \in ColdTemps
    /\ current_temp = initial_temp
    /\ scenario \in Scenarios
    /\ te_sent = 0
    /\ te_prev = {}
    /\ te_orphans = 0
    /\ te_late = 0

InitCold ==
    /\ EmuInit /\ config.power_rating = 1500
    /\ LifeInit /\ NetInit /\ CliInit /\ CtlIdle /\ ThermIdle /\ SubInit /\ HistInit
    /\ ApiInit /\ FrameInit /\ WireInit /\ ColdInit /\ RaceInit

SpecCold == InitCold /\ [][NextTemu]_vars

\* C35: every sample the emulator sends has a temperature of at least
\* -273.15, for every scenario, every initial temperature of at least
\* -273.15 and any number of steps.
C35_EmittedTemperatureAboveAbsoluteZero ==
    (at_least_absolute_zero(initial_temp) /\ te_sent > 0)
        => at_least_absolute_zero(current_temp)

\* C33: a subscription gets an id no earlier call got, greater than every id
\* handed out before, also after releases; releasing a handle removes no
\* callback but its own.
C33_SubscriptionIdsUnique ==
    [][\A id \in SubIds :
          /\ (handles[id] # "live" /\ handles'[id] = "live")
                => /\ handles[id] = "none"
                   /\ \A j \in SubIds : handles[j] # "none" => j < id
                   /\ callbacks \subseteq callbacks'
          /\ (handles[id] = "live" /\ handles'[id] = "released")
                => /\ callbacks \ {id} \subseteq callbacks'
                   /\ \A j \in SubIds \ {id} : handles'[j] = handles[j]]_<<handles, callbacks>>

\* witness of C33: the first subscription was released, the second one, made
\* with a greater id, is still registered
C33_Witness ==
    /\ handles[0] = "released"
    /\ handles[1] = "live"
    /\ callbacks = {1}
    /\ next_callback_id = 2

\* the only response waiting on connection c answers the command of the
\* call in progress: its frame (seq = calls) was read and answered
answers_this_call(c) ==
    /\ \A i \in 1..Len(c2s[c]) : c2s[c][i].seq # calls
    /\ hcmd[c].seq # calls
    /\ Len(s2c[c]) = 1

\* C36: the response a controller operation applies and returns is the
\* emulator's reply to the command that operation sent; the reply to a call
\* that ended with Timeout is never taken as the reply to a later command.
C36_ResponseAnswersItsCommand ==
    [][(cpc = "await" /\ cpc' = "idle" /\ cres'.res \in {"Ok", "DeviceError"})
          => answers_this_call(connection)]_<<cpc, cres>>

(***************************************************************************)
(* handle_client on a connection that was reset                            *)
(***************************************************************************)
\* the client's connection is reset (RST): what was in flight is discarded
ClientAbort(c) ==
    /\ link[c] = "up"
    /\ link' = [link EXCEPT ![c] = "broken"]
    /\ c2s' = [c2s EXCEPT ![c] = <<>>]
    /\ s2c' = [s2c EXCEPT ![c] = <<>>]
    /\ UNCHANGED <<emuVars, cliVars, histVars>>
    /\ UNCHANGED ctlVars
    /\ UNCHANGED <<thermVars, subVars, extVars>>
    /\ UNCHANGED lifeVars

\* receive_command returned an error of a kind other than UnexpectedEof
\* (ConnectionReset): the handler goes on to send the Error response
HandlerReceiveFails(c) ==
    /\ hpc[c] = "recv"
    /\ link[c] = "broken"
    /\ hpc' = [hpc EXCEPT ![c] = "reject"]
    /\ UNCHANGED <<config, running, state, state_lock, hcmd>>
    /\ UNCHANGED <<netVars, cliVars, histVars>>
    /\ UNCHANGED ctlVars
    /\ UNCHANGED <<thermVars, subVars, extVars>>
    /\ UNCHANGED lifeVars

\* let _ = send_response(..): the send fails on the reset stream, the result
\* is discarded; continue: the next receive_command. Whether that one reports
\* the end of the stream (HandlerReset) or the reset once more
\* (HandlerReceiveFails) is the operating system's choice.
HandlerRejectUndelivered(c) ==
    /\ hpc[c] = "reject"
    /\ link[c] = "broken"
    /\ hpc' = [hpc EXCEPT ![c] = "recv"]
    /\ UNCHANGED <<config, running, state, state_lock, hcmd>>
    /\ UNCHANGED <<netVars, cliVars, histVars>>
    /\ UNCHANGED ctlVars
    /\ UNCHANGED <<thermVars, subVars, extVars>>
    /\ UNCHANGED lifeVars

NextBroken ==
    \/ EmuStartFresh
    \/ \E c \in Conns : ClientConnect(c)
    \/ \E c \in Conns, f \in AllFrames : ClientWrite(c, f)
    \/ \E c \in Conns : ClientRecv(c)
    \/ \E c \in Conns : ClientClose(c)
    \/ \E c \in Conns : ClientAbort(c)
    \/ \E c \in Conns : HandlerReceive(c)
    \/ \E c \in Conns : HandlerReject(c)
    \/ \E c \in Conns : HandlerEof(c)
    \/ \E c \in Conns : HandlerReset(c)
    \/ \E c \in Conns : HandlerReceiveFails(c)
    \/ \E c \in Conns : HandlerRejectUndelivered(c)
    \/ \E c \in Conns : HandlerApply(c)
    \/ \E c \in Conns : HandlerRespond(c)
    \/ \E c \in Conns : HandlerRespondFail(c)

\* every handler task is scheduled
SpecBroken ==
    /\ InitEmu
    /\ [][NextBroken]_vars
    /\ \A c \in Conns :
          /\ WF_vars(HandlerReceive(c))
          /\ WF_vars(HandlerReject(c))
          /\ WF_vars(HandlerEof(c))
          /\ WF_vars(HandlerReset(c))
          /\ WF_vars(HandlerReceiveFails(c))
          /\ WF_vars(HandlerRejectUndelivered(c))
          /\ WF_vars(HandlerApply(c))
          /\ WF_vars(HandlerRespond(c))
          /\ WF_vars(HandlerRespondFail(c))

\* C34: once the peer of a connection has disconnected or the connection is
\* broken, its handler eventually terminates; it does not loop on a receive
\* that keeps failing.
C34_HandlerTerminates ==
    \A c \in Conns : (link[c] \in {"cclosed", "broken"}) ~> (hpc[c] = "done")

(***************************************************************************)
(* ThermController: the listener's iteration and temperature(), statement  *)
(* by statement                                                            *)
(***************************************************************************)
MaxPolls == 4

\* what the steps below leave alone
restVars == <<emuVars, netVars, cliVars, ctlVars, lifeVars, histVars,
              apiVars, frameVars, wireVars, temuVars>>

\* valid samples with different temperatures
RaceSamples == {[kind |-> "sample", temperature |-> t] : t \in {21, 22}}

\* what a notification round did and what its callbacks could observe
Note(kind, value, to) ==
    [kind |-> kind, value |-> value, to |-> to, registered |-> callbacks,
     stored |-> therm, stamp |-> last_update, slot |-> temp_slot, at |-> now]

\* recv_from returned a ThermData sample, Celsius::new accepted it:
\* last_update.store(now_ms())
ListenerStamp ==
    /\ thread = "loop"
    /\ th_running
    /\ lpc = "idle"
    /\ udp # <<>>
    /\ Head(udp).kind = "sample"
    /\ celsius_ok(Head(udp).temperature)
    /\ last_update' = now
    /\ lpc' = "stamped"
    /\ latest' = {Head(udp).temperature}
    /\ arrivals' = Append(arrivals, Head(udp).temperature)
    /\ UNCHANGED <<rpc, rres, notes, polls>>
    /\ UNCHANGED <<therm, max_age, th_running, thread, th_caller, temp_slot, temp_version,
                   temp_receiver, udp, udpSent, now, wpc, wseen, wret, waits>>
    /\ UNCHANGED <<subVars, restVars>>

\* (mutant) an iteration that leaves the stored temperature as it is
ListenerWriteSkipped ==
    /\ thread = "loop"
    /\ lpc = "stamped"
    /\ lpc' = "written"
    /\ UNCHANGED <<rpc, rres, latest, arrivals, notes, polls>>
    /\ UNCHANGED <<therm, max_age, last_update, th_running, thread, th_caller, temp_slot,
                   temp_version, temp_receiver, udp, udpSent, now, wpc, wseen, wret, waits>>
    /\ UNCHANGED <<subVars, restVars>>

\* therm.write(): set_temperature(therm_data.temperature)
ListenerWrite ==
    /\ thread = "loop"
    /\ lpc = "stamped"
    /\ therm' = Head(udp).temperature
    /\ lpc' = "written"
    /\ UNCHANGED <<rpc, rres, latest, arrivals, notes, polls>>
    /\ UNCHANGED <<max_age, last_update, th_running, thread, th_caller, temp_slot,
                   temp_version, temp_receiver, udp, udpSent, now, wpc, wseen, wret, waits>>
    /\ UNCHANGED <<subVars, restVars>>

\* temp_sender.send(Some(Ok(new_temp)))
ListenerPublish ==
    /\ thread = "loop"
    /\ lpc = "written"
    /\ publish(OkValue(Head(udp).temperature))
    /\ lpc' = "published"
    /\ UNCHANGED <<rpc, rres, latest, arrivals, notes, polls>>
    /\ UNCHANGED <<therm, max_age, last_update, th_running, thread, th_caller,
                   temp_receiver, udp, udpSent, now, wpc, wseen, wret, waits>>
    /\ UNCHANGED <<subVars, restVars>>

\* callbacks.lock() and the loop over the callbacks with Ok(new_temp); the
\* iteration is over
ListenerNotify ==
    /\ thread = "loop"
    /\ lpc = "published"
    /\ notify
    /\ notes' = Append(notes, Note("sample", OkValue(Head(udp).temperature), last_round'))
    /\ udp' = IF thread' = "loop" THEN Tail(udp) ELSE <<>>
    /\ lpc' = "idle"
    /\ UNCHANGED <<rpc, rres, latest, arrivals, polls>>
    /\ UNCHANGED <<therm, max_age, last_update, th_running, th_caller, temp_slot,
                   temp_version, temp_receiver, udpSent, now, wpc, wseen, wret, waits>>
    /\ UNCHANGED <<next_callback_id, handles, reentrant, tres, orphans, dropped>>
    /\ UNCHANGED restVars

\* recv_from returned no datagram: sleep(10 ms), then the age check; stale
\* data is published as Err(NoFreshData) and the callbacks are run with it
ListenerIdle ==
    /\ thread = "loop"
    /\ th_running
    /\ lpc = "idle"
    /\ udp = <<>>
    /\ polls < MaxPolls
    /\ polls' = polls + 1
    /\ now' = now + 1
    /\ IF is_stale(last_update, now')
       THEN /\ publish(NoFreshData)
            /\ notify
            /\ notes' = Append(notes, [Note("timeout", NoFreshData, last_round')
                                         EXCEPT !.slot = NoFreshData, !.at = now'])
       ELSE UNCHANGED <<temp_slot, temp_version, thread, cb_mutex, callbacks, rounds,
                        last_round, notes>>
    /\ UNCHANGED <<lpc, rpc, rres, latest, arrivals>>
    /\ UNCHANGED <<therm, max_age, last_update, th_running, th_caller,
                   temp_receiver, udp, udpSent, wpc, wseen, wret, waits>>
    /\ UNCHANGED <<next_callback_id, handles, reentrant, tres, orphans, dropped>>
    /\ UNCHANGED restVars

\* temperature(): last_update.load(); 0 or too old: Err(NoFreshData)
ReadLoad ==
    /\ rpc = "idle"
    /\ IF last_update = 0 \/ now - last_update > max_age
       THEN rres' = [kind |-> "Err", t |-> 0, latest |-> latest] /\ rpc' = rpc
       ELSE rpc' = "loaded" /\ rres' = rres
    /\ <<rpc', rres'>> # <<rpc, rres>>
    /\ UNCHANGED <<lpc, latest, arrivals, notes, polls>>
    /\ UNCHANGED <<thermVars, subVars, restVars>>

\* temperature(): therm.read(), Ok(therm.temperature())
ReadTemperature ==
    /\ rpc = "loaded"
    /\ rres' = [kind |-> "Ok", t |-> therm, latest |-> latest]
    /\ rpc' = "idle"
    /\ UNCHANGED <<lpc, latest, arrivals, notes, polls>>
    /\ UNCHANGED <<thermVars, subVars, restVars>>

\* the listener and a caller of temperature()
NextRead ==
    \/ ThermStart
    \/ ListenerBind
    \/ \E d \in RaceSamples : UdpArrive(d)
    \/ ListenerStamp
    \/ ListenerWrite
    \/ ListenerPublish
    \/ ListenerNotify
    \/ ListenerIdle
    \/ ReadLoad
    \/ ReadTemperature

SpecRead == InitSub /\ [][NextRead]_vars

\* C37: whenever temperature() returns Ok(t), t is the temperature of the most
\* recently received valid sample, never the constructor's initial
\* temperature nor an older sample, whatever the interleaving with the
\* listener's update.
C37_TemperatureIsLatestSample ==
    rres.kind = "Ok" => rres.latest = {rres.t}

\* on_temperature_change with a callback that only observes the value
SubscribePlain == Subscribe(FALSE)

\* the listener taking samples, and subscribers
NextListen ==
    \/ ThermStart
    \/ ListenerBind
    \/ \E d \in RaceSamples : UdpArrive(d)
    \/ ListenerStamp
    \/ ListenerWrite
    \/ ListenerPublish
    \/ ListenerNotify
    \/ SubscribePlain
    \/ \E id \in SubIds : HandleDrop(id)

SpecListen == InitSub /\ [][NextListen]_vars

\* the listener taking samples and polling, and subscribers
NextPoll ==
    \/ ThermStart
    \/ ListenerBind
    \/ UdpArrive(Sample)
    \/ ListenerStamp
    \/ ListenerWrite
    \/ ListenerPublish
    \/ ListenerNotify
    \/ ListenerIdle
    \/ SubscribePlain
    \/ \E id \in SubIds : HandleDrop(id)

SpecPoll == InitSub /\ [][NextPoll]_vars

\* the rounds made for samples, in the order they were made
SampleNotes == SelectSeq(notes, LAMBDA n : n.kind = "sample")
TimeoutNotes == SelectSeq(notes, LAMBDA n : n.kind = "timeout")

====
